---- MODULE Spec2Model ----
(***************************************************************************)
(* Model of the trefle-api client and of its command line tool.            *)
(*                                                                         *)
(*   fetchPlants / enrichPlantData   CLI plant walk (main.js)              *)
(*   main and the other fetch*       a whole CLI run, SIGINT (main.js)     *)
(*   TrefleAPI.getAllPages           library walk (api.js)                 *)
(*   TrefleAPI methods               validation before the request (api.js)*)
(*   writeToFile, pause, randomNumber, trimPlantSynonyms,                  *)
(*   flattenPlantData                (utils.js)                            *)
(*                                                                         *)
(* Spec:        one call, either fetchPlants with a set of options or      *)
(*              getAllPages with a method name.                            *)
(* SpecCli:     one run of main() with any set of fetch categories.        *)
(* SpecApi:     one call of one API method.                                *)
(* SpecFlatten: one call of flattenPlantData.                              *)
(*                                                                         *)
(* The Trefle server and the file system are the environment: every        *)
(* response and every write outcome is chosen nondeterministically.  Each  *)
(* action runs the code from one await to the next.                        *)
(***************************************************************************)
EXTENDS Integers, Sequences, FiniteSets, TLC

(* ------------------------------ bounds -------------------------------- *)
\* largest page size of the server (records per full page)
MaxPageLen == 2
\* pages the server holds beyond one full batch of the walk
MaxExtraPages == 2
\* largest start page tried: options.startPage of a fetchPlants call, and
\* the number written after --start-page in a run of main()
MaxStartPage == 2
\* records per run that are not plainly served and enriched: a summary
\* without id, a failed detail fetch, a detail response without data, a
\* detail record on which flattenPlantData throws
MaxAnomalies == 1
\* pages the server holds for a getAllPages call
MaxGetAllPages == 4
\* CLI run: requests (queries, ids, endpoint flags) given per fetch category;
\* without --dry-run also the pieces of work of the whole run
MaxItems == 2
\* longest list under main_species.distributions.native / introduced
MaxDistLen == 6
\* longest list under a key of main_species.images
MaxImageLen == 3
\* longest synonyms list of a summary record
MaxSynonymsLen == 6
\* longest sources list
MaxSourcesLen == 3
\* longest list of plants handed to trimPlantSynonyms
MaxTrimPlants == 2

(* ------------------------- program constants -------------------------- *)
EnrichedBatchSize == 5
BasicBatchSize == 10
DryRunPageCap == 15
DefaultMaxSynonyms == 5
PauseMin == 2
PauseMax == 5
DefaultStartPage == 1

(* ------------------------------ numbers ------------------------------- *)
\* The number NaN where a variable holds a number: the page numbers are
\* positive, and the operators below treat NaN as JavaScript does.
NaN == -1

IsNaN(x) == x = NaN

\* x + n and x - n (x++, x - 1): NaN plus anything is NaN
Add(x, n) == IF IsNaN(x) THEN NaN ELSE x + n

\* x === y and x <= y on numbers: every comparison with NaN is false
SameNumber(x, y) == ~IsNaN(x) /\ ~IsNaN(y) /\ x = y
AtMost(x, y) == ~IsNaN(x) /\ ~IsNaN(y) /\ x <= y

\* The decimal digits of n, the first one first.
RECURSIVE Digits(_)
Digits(n) == IF n < 10 THEN <<n>> ELSE Append(Digits(n \div 10), n % 10)

\* The number the digits ds write in base r, read from the left up to the
\* first digit that is no digit of base r; acc is what was read so far and
\* NaN when nothing was.
RECURSIVE ReadDigits(_, _, _)
ReadDigits(ds, r, acc) ==
    IF ds = << >> \/ Head(ds) >= r THEN acc
    ELSE ReadDigits(Tail(ds), r, (IF IsNaN(acc) THEN 0 ELSE acc * r) + Head(ds))

\* parseInt(string, radix) of a decimal numeral, the string given as the
\* number n it writes; radix 0 stands for undefined, which reads base 10.
\* A radix that is neither 0 nor in 2..36 gives NaN.
parseInt(n, radix) ==
    IF radix = 0 THEN ReadDigits(Digits(n), 10, NaN)
    ELSE IF radix < 2 \/ radix > 36 THEN NaN
    ELSE ReadDigits(Digits(n), radix, NaN)

\* The value of an option declared .option(flags, description, parseInt,
\* defaultValue): the default value when the option is not given (arg 0),
\* else parseInt(arg, previous), commander handing the value the option
\* had before, the default value, to the parser as its second argument.
OptionValue(arg, defaultValue) ==
    IF arg = 0 THEN defaultValue ELSE parseInt(arg, defaultValue)

\* .option('--start-page <number>', ..., parseInt, 1)
StartPageOption(arg) == OptionValue(arg, DefaultStartPage)

VARIABLES
    caller,          \* who runs: "fetchPlants" (the CLI), "getAllPages", "api", "flatten"
    options,         \* parsed CLI options: enrichment, dryRun, startPage, pages
    maxPages,        \* getAllPages option (0: not set)
    pc,              \* position of the call: the await it is suspended at
    page,            \* let page
    pagesFetched,    \* let pagesFetched
    batchData,       \* let batchData
    batchStartPage,  \* let batchStartPage
    requests,        \* page requests issued so far, with their responses
    writes,          \* writeToFile calls so far, with their outcome
    plants,          \* enrichPlantData: parameter plants
    i,               \* enrichPlantData: loop index (1-based)
    enrichedPlants,  \* enrichPlantData: const enrichedPlants
    enrichLog,       \* what enrichPlantData did for each record of its last call
    allData,         \* getAllPages: const allData
    lastNet,         \* last rate-relevant event: "none", "request", "pause"
    httpCount,       \* HTTP requests issued so far
    pagePauses,      \* pages after which the walk's own pause was awaited
    announced,       \* dry run: batch ranges announced in the log
    ended,           \* why the walk loop was left ("" while it runs)
    anomalies,       \* anomalies served so far (bounded by MaxAnomalies)
    pageSize,        \* the server's page size
    category,        \* main: the fetch function that is running
    cli,             \* environment token and the options of the other categories
    item,            \* index of the request the running category is at
    inFlight,        \* asynchronous operations started and not yet settled
    exitCode,        \* exit code of the process (-1 while it runs)
    logged,          \* the closing message of the run ("none" while it runs)
    methodName,      \* getAllPages: parameter methodName
    input,           \* arguments of the single call of SpecApi / SpecFlatten
    output,          \* what that call came to
    argsAfter        \* the arguments of that call as the call left them

vars == <<caller, options, maxPages, pc, page, pagesFetched, batchData,
          batchStartPage, requests, writes, plants, i, enrichedPlants,
          enrichLog, allData, lastNet, httpCount, pagePauses, announced,
          ended, anomalies, pageSize, category, cli, item, inFlight,
          exitCode, logged, methodName, input, output, argsAfter>>

(* ------------------------------ helpers ------------------------------- *)
\* const batchSize = options.enrichment ? 5 : 10
batchSize == IF options.enrichment THEN EnrichedBatchSize ELSE BasicBatchSize

\* if (options.pages && pagesFetched >= options.pages): 0 stands for an
\* option that was not given (undefined is falsy, as is 0)
ReachedPageLimit == options.pages # 0 /\ pagesFetched >= options.pages

\* randomNumber(minVal, maxVal): the integers the call can return
randomNumber(minVal, maxVal) == minVal .. maxVal

\* pause(seconds) throws on a negative argument
pauseAccepts(seconds) == seconds >= 0

\* A summary record as the list endpoint returns it: page and idx say where
\* the server put it, id is 0 when the record carries no (truthy) id.
Summary(p, k, hasId) ==
    [page |-> p, idx |-> k,
     id |-> IF ~hasId THEN 0 ELSE IF IsNaN(p) THEN k ELSE (p - 1) * MaxPageLen + k,
     form |-> "summary"]

\* trimPlantSynonyms(plants, maxSynonyms): a new list of shallow copies, same
\* length and order, synonyms cut to maxSynonyms
trimPlantSynonyms(ps, maxSynonyms) ==
    [k \in 1 .. Len(ps) |-> [ps[k] EXCEPT !.form = "trimmed"]]

\* flattenPlantData(plant, detail) on a detail record it accepts
flattenPlantData(plant) == [plant EXCEPT !.form = "flat"]

\* The data arrays the server can return for page p with n records of which
\* the ones in noId carry no id.
PageData(p, n, noId) == [k \in 1 .. n |-> Summary(p, k, k \notin noId)]

\* The pages the server holds for the caller; a response carries a next link
\* only while there is a further page.
ServerPages ==
    IF caller = "getAllPages" THEN MaxGetAllPages
    ELSE options.startPage - 1 + batchSize + MaxExtraPages

\* The answer to the request for page p can carry a next link.  What the
\* server makes of page=NaN is its own affair: such a walk stays on that
\* page and stops at its page limit.
HasFurtherPage(p) == IF IsNaN(p) THEN options.pages # 0 ELSE p < ServerPages

\* The data arrays of n records the server can return for page p: any of the
\* records may lack its id, as far as the anomaly budget allows.
DataLists(p, n) ==
    { PageData(p, n, noId) :
        noId \in { s \in SUBSET (1 .. n) : Cardinality(s) <= MaxAnomalies - anomalies } }

\* The list lengths of a response: the server cuts its result into pages of
\* pageSize records, so a page that has a successor is full and the last
\* page holds what is left; any page may also come back empty.
PageLengths(nx) == IF nx THEN {0, pageSize} ELSE 0 .. pageSize

\* Responses to the request for page p: links.next is present or not; the
\* data key is absent, or it is a list of records.
Responses(p) ==
    UNION { { [present |-> TRUE, data |-> d, next |-> nx] :
                  d \in UNION { DataLists(p, n) : n \in PageLengths(nx) } }
            \cup { [present |-> FALSE, data |-> << >>, next |-> nx] } :
            nx \in { b \in BOOLEAN : b => HasFurtherPage(p) } }

NoIdCount(d) == Cardinality({k \in 1 .. Len(d) : d[k].id = 0})

\* result.data && result.data.length > 0
HasData(r) == r.present /\ Len(r.data) > 0

\* const result = await api.getPlants({ page }) of the current iteration
result == requests[Len(requests)]

(* ------------------------- TrefleAPI methods -------------------------- *)
\* Methods whose first parameter is the options object {filter, ..., page}:
\* getPlants, getSpeciesList and the methods made by _createListMethod.
ListMethods ==
    {"getPlants", "getSpeciesList", "getKingdoms", "getSubkingdoms",
     "getDivisions", "getDivisionClasses", "getDivisionOrders", "getFamilies",
     "getGenera", "getDistributions", "getCorrections"}

\* Methods (query, options): searchPlants, searchSpecies
SearchMethods == {"searchPlants", "searchSpecies"}

\* Methods (id, options) that return a list: getPlantsByZone checks its id,
\* getPlantsByGenus does not
ZoneMethods == {"getPlantsByZone"}
GenusMethods == {"getPlantsByGenus"}

\* Methods (id): getPlant, getSpecies, getCorrectionsForSpecies and the
\* methods made by _createSingleMethod
SingleMethods ==
    {"getPlant", "getSpecies", "getKingdom", "getSubkingdom", "getDivision",
     "getDivisionClass", "getDivisionOrder", "getFamily", "getGenus",
     "getDistribution", "getCorrection", "getCorrectionsForSpecies"}

\* Methods (id, notes): reportPlant, reportSpecies
ReportMethods == {"reportPlant", "reportSpecies"}

Methods ==
    ListMethods \cup SearchMethods \cup ZoneMethods \cup GenusMethods
        \cup SingleMethods \cup ReportMethods

\* Functions of the instance that are no API methods.  Called with the
\* options object, these return a value without data and links and make no
\* request: _buildParams (the parameters), the two method makers (a
\* function), toString, hasOwnProperty.
ValueFunctions ==
    {"_buildParams", "_createListMethod", "_createSingleMethod", "toString",
     "hasOwnProperty", "valueOf", "isPrototypeOf", "propertyIsEnumerable",
     "toLocaleString"}

\* These throw a TypeError or return undefined, of which result.data cannot
\* be read: _makeRequest (method.toUpperCase of an object), the class
\* constructor called without new, _verifyToken with the token set.
\* The same for the accessor helpers of Object.prototype: __defineGetter__
\* and __defineSetter__ want a function, __lookupGetter__ and
\* __lookupSetter__ return undefined.
FailingFunctions ==
    {"_makeRequest", "constructor", "_verifyToken", "__defineGetter__",
     "__defineSetter__", "__lookupGetter__", "__lookupSetter__"}

\* getAllPages called by getAllPages takes the options object for the
\* method name and finds no method under it.
SelfFunctions == {"getAllPages"}

\* Properties of the instance that are no functions, and names it has not.
NoFunctions == {"noSuchMethod", "token", "baseUrl", "logger", "__proto__"}

\* const method = this[methodName]; !method || typeof method !== 'function'
MethodExists(m) ==
    m \in Methods \cup ValueFunctions \cup FailingFunctions \cup SelfFunctions

\* method.call(this, methodOptions) reaches _makeRequest: the API methods
\* but the report methods, which take the options object for the id, find
\* their notes undefined and throw 'Notes cannot be empty'.
RequestsPage(m) == m \in Methods \ ReportMethods

\* The method names tried with getAllPages: the list, search and report
\* methods, functions of each other kind, a property that is no function
\* and a name that is no property of TrefleAPI.
GetAllPagesMethods ==
    ListMethods \cup SearchMethods \cup ZoneMethods \cup GenusMethods
        \cup ReportMethods
        \cup {"_buildParams", "toString", "valueOf", "_verifyToken", "_makeRequest",
               "__lookupGetter__", "getAllPages", "noSuchMethod", "token"}

(* ------------------------- operations in flight ----------------------- *)
\* The operation a position of the code awaits, as the list of operations
\* started there; the positions not named await nothing that spans a step.
AwaitedAt(p) ==
    IF p \in {"pause", "enrich_pause", "item_pause"} THEN <<"pause">>
    ELSE IF p \in {"write_batch", "write_last", "write_final", "write_error",
                   "item_write"} THEN <<"write">>
    ELSE IF p \in {"page_wait", "detail_wait", "ga_wait", "item_wait"} THEN <<"request">>
    ELSE << >>

\* Settle with the operation started and never awaited.
Settle_NotAwaited(ops) == ops

\* The awaited operation has settled: it leaves the list.
Settle(ops) == IF ops = << >> THEN << >> ELSE Tail(ops)

\* A step of a fetch function: the operation it was suspended on has settled
\* and the one awaited at the new position has been started.
Track ==
    /\ inFlight' = Settle(inFlight) \o AwaitedAt(pc')
    /\ UNCHANGED <<category, cli, item, exitCode, logged, methodName, input, output,
                   argsAfter>>

(* ------------------------------- Init --------------------------------- *)
\* --pages values tried: not given (0), or a ceiling up to one full batch
\* and a partial one (dry run: up to the dry-run cap and beyond)
PageLimits(enrichment, dryRun) ==
    0 .. ((IF dryRun THEN DryRunPageCap
           ELSE IF enrichment THEN EnrichedBatchSize ELSE BasicBatchSize)
          + MaxExtraPages)

\* The options objects with a start page of startPages.
Options(startPages) ==
    { [plants |-> pl, enrichment |-> en, dryRun |-> dr, startPage |-> sp, pages |-> pg] :
        pl \in BOOLEAN, en \in BOOLEAN, dr \in BOOLEAN,
        sp \in startPages,
        pg \in 0 .. (DryRunPageCap + MaxExtraPages) }

\* The options objects fetchPlants is called with.
OptionSets == Options(1 .. MaxStartPage)

NoOptions ==
    [plants |-> FALSE, enrichment |-> FALSE, dryRun |-> FALSE, startPage |-> 1, pages |-> 0]

\* The options of the other fetch categories, as the number of requests each
\* asks for: --genus-list; --search queries; --plant-id ids; taxonomy flags
\* and ids; --species, --species-id, --search-species; --zones, --zone,
\* --corrections, --correction.  token: TREFLE_API_TOKEN is set.
\* emptyQueries: the queries of --search and --search-species are empty
\* strings (the species category then holds such queries only).
\* startPage: the number written after --start-page (0: option not given).
NoCli ==
    [token |-> TRUE, single |-> 0, search |-> 0, byId |-> 0, taxonomy |-> 0,
     species |-> 0, distributions |-> 0, emptyQueries |-> FALSE, startPage |-> 0]

\* The locals of the walks before any of them has run.
Quiet ==
    /\ pagesFetched = 0
    /\ batchData = << >>
    /\ requests = << >>
    /\ writes = << >>
    /\ plants = << >>
    /\ i = 1
    /\ enrichedPlants = << >>
    /\ enrichLog = << >>
    /\ allData = << >>
    /\ lastNet = "none"
    /\ httpCount = 0
    /\ pagePauses = {}
    /\ announced = << >>
    /\ ended = ""
    /\ anomalies = 0
    /\ item = 1
    /\ inFlight = << >>
    /\ exitCode = -1
    /\ logged = "none"
    /\ argsAfter = << >>

Init ==
    /\ caller \in {"fetchPlants", "getAllPages"}
    /\ IF caller = "fetchPlants"
       THEN /\ options \in { o \in OptionSets :
                                /\ o.pages \in PageLimits(o.enrichment, o.dryRun)
                                /\ ~o.plants => o = NoOptions }
            /\ maxPages = 0
            /\ pc = "start"
       ELSE /\ options = NoOptions
            /\ maxPages \in 0 .. (MaxGetAllPages + 1)
            /\ pc = "ga_loop"
    /\ page = IF caller = "fetchPlants" THEN options.startPage ELSE 1
    /\ pagesFetched = 0
    /\ batchData = << >>
    /\ batchStartPage = page
    /\ requests = << >>
    /\ writes = << >>
    /\ plants = << >>
    /\ i = 1
    /\ enrichedPlants = << >>
    /\ enrichLog = << >>
    /\ allData = << >>
    /\ lastNet = "none"
    /\ httpCount = 0
    /\ pagePauses = {}
    /\ announced = << >>
    /\ ended = ""
    /\ anomalies = 0
    /\ pageSize \in 1 .. MaxPageLen
    /\ category = "plants"
    /\ cli = NoCli
    /\ item = 1
    /\ inFlight = << >>
    /\ exitCode = -1
    /\ logged = "none"
    /\ methodName \in IF caller = "getAllPages" THEN GetAllPagesMethods ELSE {"getPlants"}
    /\ input = << >>
    /\ output = << >>
    /\ argsAfter = << >>

(* ------------------------ fetchPlants: the walk ----------------------- *)
\* The local variables of fetchPlants, as one value the steps below update.
Cur ==
    [pc |-> pc, page |-> page, pagesFetched |-> pagesFetched,
     batchData |-> batchData, batchStartPage |-> batchStartPage, ended |-> ended]

Assign(w) ==
    /\ pc' = w.pc
    /\ page' = w.page
    /\ pagesFetched' = w.pagesFetched
    /\ batchData' = w.batchData
    /\ batchStartPage' = w.batchStartPage
    /\ ended' = w.ended

\* NextLinkCheck writing the batch at the end without looking whether it
\* holds records.
NextLinkCheck_AlwaysWrites(r, w) ==
    IF r.next
    THEN [w EXCEPT !.page = Add(w.page, 1), !.pc = "pause"]
    ELSE [w EXCEPT !.pc = "write_last"]

\* NextLinkCheck going on to the next page without the pause.
NextLinkCheck_NoPause(r, w) ==
    IF r.next
    THEN [w EXCEPT !.page = Add(w.page, 1), !.pc = "loop"]
    ELSE IF Len(w.batchData) > 0
         THEN [w EXCEPT !.pc = "write_last"]
         ELSE [w EXCEPT !.pc = "returned", !.ended = "natural"]

\* if (result.links && result.links.next) { page++; await pause(...) }
\* else { if (batchData.length > 0) await writeToFile(...); break }
NextLinkCheck(r, w) ==
    IF r.next
    THEN [w EXCEPT !.page = Add(w.page, 1), !.pc = "pause"]
    ELSE IF Len(w.batchData) > 0
         THEN [w EXCEPT !.pc = "write_last"]
         ELSE [w EXCEPT !.pc = "returned", !.ended = "natural"]

\* pagesFetched++; if (pagesFetched % batchSize === 0) await writeToFile(...)
PageAppended(r, w) ==
    LET w1 == [w EXCEPT !.pagesFetched = w.pagesFetched + 1] IN
    IF w1.pagesFetched % batchSize = 0
    THEN [w1 EXCEPT !.pc = "write_batch"]
    ELSE NextLinkCheck(r, w1)

\* CatchBlock leaving the loop without saving the accumulated data.
CatchBlock_NoFlush(w) == [w EXCEPT !.pc = "returned", !.ended = "error"]

\* CatchBlock passing the error on instead of swallowing it.
CatchBlock_Rethrow(w) == [w EXCEPT !.pc = "thrown"]

\* catch (error) { if (batchData.length > 0) await writeToFile(...); break }
CatchBlock(w) ==
    IF Len(w.batchData) > 0
    THEN [w EXCEPT !.pc = "write_error"]
    ELSE [w EXCEPT !.pc = "returned", !.ended = "error"]

\* The batch is non-empty and about to be written after the loop's own
\* page-limit check: if (batchData.length > 0 && !options.dryRun)
LimitFlushes(w) == Len(w.batchData) > 0 /\ ~options.dryRun

\* if (!options.plants) return;
Start ==
    /\ pc = "start"
    /\ Assign(IF options.plants THEN [Cur EXCEPT !.pc = "loop"]
              ELSE [Cur EXCEPT !.pc = "returned", !.ended = "disabled"])
    /\ Track
    /\ UNCHANGED <<pageSize, caller, options, maxPages, requests, writes, plants, i,
                   enrichedPlants, enrichLog, allData, lastNet, httpCount,
                   pagePauses, announced, anomalies>>

\* Top of the loop with the page limit reached.
ReachedLimit ==
    /\ caller = "fetchPlants" /\ pc = "loop"
    /\ ReachedPageLimit
    /\ Assign(IF LimitFlushes(Cur) THEN [Cur EXCEPT !.pc = "write_final"]
              ELSE [Cur EXCEPT !.pc = "returned", !.ended = "ceiling"])
    /\ Track
    /\ UNCHANGED <<pageSize, caller, options, maxPages, requests, writes, plants, i,
                   enrichedPlants, enrichLog, allData, lastNet, httpCount,
                   pagePauses, announced, anomalies>>

\* BatchExample naming the page that comes next as the end of the batch.
BatchExample_EndsAtNextPage(shown, pf, pg) ==
    IF pf % batchSize = 0
    THEN Append(shown, [start |-> Add(Add(pg, 0 - batchSize), 1), end |-> pg])
    ELSE shown

\* if (pagesFetched % batchSize === 0) { batchEnd = page - 1; batchStart =
\* batchEnd - batchSize + 1; "Would write batch: plants_pages_..." }, with
\* pagesFetched and page as they are after pagesFetched++ and page++
BatchExample(shown, pf, pg) ==
    IF pf % batchSize = 0
    THEN Append(shown, [start |-> Add(Add(Add(pg, -1), 0 - batchSize), 1),
                        end |-> Add(pg, -1)])
    ELSE shown

\* The dry-run walk from the top of the loop with the given page and count
\* to its end: the batches it announces.
RECURSIVE DryWalk(_, _, _)
DryWalk(pg, pf, shown) ==
    IF options.pages # 0 /\ pf >= options.pages
    THEN shown
    ELSE IF pf + 1 >= DryRunPageCap
         THEN BatchExample(shown, pf + 1, Add(pg, 1))
         ELSE DryWalk(Add(pg, 1), pf + 1, BatchExample(shown, pf + 1, Add(pg, 1)))

\* What a dry run with the start page, page ceiling and enrichment setting
\* of the options announces.
DryRunAnnounces == DryWalk(options.startPage, 0, << >>)

\* One iteration of the dry-run branch (it awaits nothing).
DryRunPage ==
    /\ caller = "fetchPlants" /\ pc = "loop"
    /\ ~ReachedPageLimit
    /\ options.dryRun
    /\ LET pf == pagesFetched + 1
           pg == Add(page, 1)
       IN /\ announced' = BatchExample(announced, pf, pg)
          /\ Assign(IF pf >= DryRunPageCap
                    THEN [Cur EXCEPT !.pagesFetched = pf, !.page = pg,
                                     !.pc = "returned", !.ended = "dry15"]
                    ELSE [Cur EXCEPT !.pagesFetched = pf, !.page = pg])
    /\ Track
    /\ UNCHANGED <<pageSize, caller, options, maxPages, requests, writes, plants, i,
                   enrichedPlants, enrichLog, allData, lastNet, httpCount,
                   pagePauses, anomalies>>

FailedRequest(p) ==
    [page |-> p, ok |-> FALSE, present |-> FALSE, data |-> << >>, next |-> FALSE]

OkRequest(p, r) ==
    [page |-> p, ok |-> TRUE, present |-> r.present, data |-> r.data, next |-> r.next]

\* await api.getPlants({ page }): the request goes out and the walk is
\* suspended until it is answered.
RequestPage ==
    /\ caller = "fetchPlants" /\ pc = "loop"
    /\ ~ReachedPageLimit
    /\ ~options.dryRun
    /\ httpCount' = httpCount + 1
    /\ lastNet' = "request"
    /\ Assign([Cur EXCEPT !.pc = "page_wait"])
    /\ Track
    /\ UNCHANGED <<pageSize, caller, options, maxPages, requests, writes, plants, i,
                   enrichedPlants, enrichLog, allData, pagePauses, announced,
                   anomalies>>

\* const result = await api.getPlants({ page }): the request is answered;
\* what follows it up to the next await.
FetchPage ==
    /\ caller = "fetchPlants" /\ pc = "page_wait"
    /\ \/ /\ requests' = Append(requests, FailedRequest(page))
          /\ Assign(CatchBlock(Cur))
          /\ UNCHANGED <<plants, i, enrichedPlants, enrichLog, anomalies>>
       \/ \E r \in Responses(page) :
            /\ requests' = Append(requests, OkRequest(page, r))
            /\ anomalies' = anomalies + NoIdCount(r.data)
            /\ IF ~HasData(r)
               THEN /\ Assign([Cur EXCEPT !.pc = "returned", !.ended = "empty"])
                    /\ UNCHANGED <<plants, i, enrichedPlants, enrichLog>>
               ELSE IF options.enrichment
               THEN /\ plants' = r.data
                    /\ i' = 1
                    /\ enrichedPlants' = << >>
                    /\ enrichLog' = << >>
                    /\ Assign([Cur EXCEPT !.pc = "enrich"])
               ELSE /\ Assign(PageAppended(r,
                         [Cur EXCEPT !.batchData =
                             batchData \o trimPlantSynonyms(r.data, DefaultMaxSynonyms)]))
                    /\ UNCHANGED <<plants, i, enrichedPlants, enrichLog>>
    /\ Track
    /\ UNCHANGED <<pageSize, caller, options, maxPages, writes, allData, lastNet,
                   httpCount, pagePauses, announced>>

\* await pause(randomNumber(2, 5)) after page++
PagePause ==
    /\ pc = "pause"
    /\ \E seconds \in randomNumber(PauseMin, PauseMax) : pauseAccepts(seconds)
    /\ lastNet' = "pause"
    /\ pagePauses' = pagePauses \cup {Add(page, -1)}
    /\ Assign([Cur EXCEPT !.pc = "loop"])
    /\ Track
    /\ UNCHANGED <<pageSize, caller, options, maxPages, requests, writes, plants, i,
                   enrichedPlants, enrichLog, allData, httpCount, announced,
                   anomalies>>

(* --------------------------- enrichPlantData -------------------------- *)
\* What the detail request of one record can come to: the detail record is
\* flattened ("data"), flattenPlantData throws on it ("flattenThrows"), the
\* response has no data ("noData"), api.getPlant rejects ("fail").
DetailOutcomes ==
    { o \in {"data", "flattenThrows", "noData", "fail"} :
        o # "data" => anomalies < MaxAnomalies }

\* Does the try block reach "await pause(randomNumber(2, 5))" (line 160)?
\* Only when neither api.getPlant nor flattenPlantData throws.
ReachesPause(outcome) == outcome \in {"data", "noData"}

\* EnrichedRecord flattening whatever came back.
EnrichedRecord_AlwaysFlat(plant, outcome) == flattenPlantData(plant)

\* The record enrichPlantData pushes for a plant with the given outcome.
EnrichedRecord(plant, outcome) ==
    IF outcome = "data" THEN flattenPlantData(plant) ELSE plant

\* PushRecord with a catch block that forgets the partial record.
PushRecord_DropOnFail(list, plant, outcome) ==
    IF outcome = "fail" THEN list ELSE Append(list, plant)

\* enrichedPlants.push(...) of the iteration (lines 151, 156, 166)
PushRecord(list, plant, outcome) == Append(list, EnrichedRecord(plant, outcome))

LogEntry(k, fetched, outcome) ==
    [idx |-> k, fetched |-> fetched, outcome |-> outcome, paused |-> FALSE]

\* await api.getPlant(plantId): the detail request goes out and the loop is
\* suspended until it is answered.
RequestDetail ==
    /\ pc = "enrich"
    /\ i <= Len(plants)
    /\ plants[i].id # 0
    /\ ~options.dryRun
    /\ httpCount' = httpCount + 1
    /\ lastNet' = "request"
    /\ pc' = "detail_wait"
    /\ Track
    /\ UNCHANGED <<pageSize, caller, options, maxPages, page, pagesFetched, batchData,
                   batchStartPage, requests, writes, plants, i, enrichedPlants,
                   enrichLog, allData, pagePauses, announced, ended, anomalies>>

\* One iteration of the for loop: a record without id is skipped, a dry run
\* keeps the record as it is; else the detail request is answered and the
\* iteration runs up to its await pause (or to its end).
EnrichRecord ==
    /\ \/ /\ pc = "enrich"
          /\ i <= Len(plants)
          /\ IF plants[i].id = 0
             THEN \* if (!plantId) { warn; continue; }
                  /\ enrichLog' = Append(enrichLog, LogEntry(i, FALSE, "noId"))
                  /\ UNCHANGED enrichedPlants
             ELSE /\ options.dryRun
                  /\ enrichLog' = Append(enrichLog, LogEntry(i, FALSE, "dryRun"))
                  /\ enrichedPlants' = Append(enrichedPlants, plants[i])
          /\ i' = i + 1
          /\ UNCHANGED <<pc, anomalies>>
       \/ /\ pc = "detail_wait"
          /\ \E outcome \in DetailOutcomes :
               /\ anomalies' = IF outcome = "data" THEN anomalies ELSE anomalies + 1
               /\ enrichLog' = Append(enrichLog, LogEntry(i, TRUE, outcome))
               /\ enrichedPlants' = PushRecord(enrichedPlants, plants[i], outcome)
               /\ IF ReachesPause(outcome)
                  THEN pc' = "enrich_pause" /\ i' = i
                  ELSE pc' = "enrich" /\ i' = i + 1
    /\ Track
    /\ UNCHANGED <<pageSize, caller, options, maxPages, page, pagesFetched, batchData,
                   batchStartPage, requests, writes, plants, allData, lastNet,
                   httpCount, pagePauses, announced, ended>>

\* await pause(randomNumber(2, 5)) at the end of the try block
EnrichPause ==
    /\ pc = "enrich_pause"
    /\ \E seconds \in randomNumber(PauseMin, PauseMax) : pauseAccepts(seconds)
    /\ lastNet' = "pause"
    /\ enrichLog' = [enrichLog EXCEPT ![Len(enrichLog)].paused = TRUE]
    /\ i' = i + 1
    /\ pc' = "enrich"
    /\ Track
    /\ UNCHANGED <<pageSize, caller, options, maxPages, page, pagesFetched, batchData,
                   batchStartPage, requests, writes, plants, enrichedPlants,
                   allData, httpCount, pagePauses, announced, ended, anomalies>>

\* return enrichedPlants; back in fetchPlants: batchData.push(...enrichedData)
EnrichReturn ==
    /\ pc = "enrich"
    /\ category = "plants"
    /\ i > Len(plants)
    /\ Assign(PageAppended(result, [Cur EXCEPT !.batchData = batchData \o enrichedPlants]))
    /\ Track
    /\ UNCHANGED <<pageSize, caller, options, maxPages, requests, writes, plants, i,
                   enrichedPlants, enrichLog, allData, lastNet, httpCount,
                   pagePauses, announced, anomalies>>

(* ------------------------------ writeToFile --------------------------- *)
\* writeToFile resolves, or rethrows whatever mkdir/writeFile threw.
WriteOutcomes == BOOLEAN

\* One call writeToFile(batchData, plants_pages_{start}-{end}..., format)
WriteCall(site, start, end, data, ok) ==
    [site |-> site, start |-> start, end |-> end,
     enriched |-> options.enrichment, data |-> data, ok |-> ok]

\* Batch boundary (line 293): batchEndPage = page
WriteBatch ==
    /\ pc = "write_batch"
    /\ \E ok \in WriteOutcomes :
         /\ writes' = Append(writes, WriteCall("batch", batchStartPage, page, batchData, ok))
         /\ Assign(IF ok
                   THEN NextLinkCheck(result,
                            [Cur EXCEPT !.batchData = << >>, !.batchStartPage = Add(page, 1)])
                   ELSE CatchBlock(Cur))
    /\ Track
    /\ UNCHANGED <<pageSize, caller, options, maxPages, requests, plants, i, enrichedPlants,
                   enrichLog, allData, lastNet, httpCount, pagePauses, announced,
                   anomalies>>

\* No more pages (line 313): batchEndPage = page
WriteLast ==
    /\ pc = "write_last"
    /\ \E ok \in WriteOutcomes :
         /\ writes' = Append(writes, WriteCall("last", batchStartPage, page, batchData, ok))
         /\ Assign(IF ok
                   THEN [Cur EXCEPT !.pc = "returned", !.ended = "natural"]
                   ELSE CatchBlock(Cur))
    /\ Track
    /\ UNCHANGED <<pageSize, caller, options, maxPages, requests, plants, i, enrichedPlants,
                   enrichLog, allData, lastNet, httpCount, pagePauses, announced,
                   anomalies>>

\* Page limit (line 238, outside the try block): batchEndPage = page - 1
WriteFinal ==
    /\ pc = "write_final"
    /\ \E ok \in WriteOutcomes :
         /\ writes' = Append(writes, WriteCall("final", batchStartPage, Add(page, -1), batchData, ok))
         /\ Assign(IF ok
                   THEN [Cur EXCEPT !.pc = "returned", !.ended = "ceiling"]
                   ELSE [Cur EXCEPT !.pc = "thrown"])
    /\ Track
    /\ UNCHANGED <<pageSize, caller, options, maxPages, requests, plants, i, enrichedPlants,
                   enrichLog, allData, lastNet, httpCount, pagePauses, announced,
                   anomalies>>

\* Catch block (line 328): batchEndPage = page - 1
WriteError ==
    /\ pc = "write_error"
    /\ \E ok \in WriteOutcomes :
         /\ writes' = Append(writes, WriteCall("error", batchStartPage, Add(page, -1), batchData, ok))
         /\ Assign(IF ok
                   THEN [Cur EXCEPT !.pc = "returned", !.ended = "error"]
                   ELSE [Cur EXCEPT !.pc = "thrown"])
    /\ Track
    /\ UNCHANGED <<pageSize, caller, options, maxPages, requests, plants, i, enrichedPlants,
                   enrichLog, allData, lastNet, httpCount, pagePauses, announced,
                   anomalies>>

(* ----------------------------- getAllPages ---------------------------- *)
\* The page parameter of the request: method.call(this, methodOptions) hands
\* the options object, page included, to the first parameter of the method.
\* A method whose first parameter is a query or an id takes the object for
\* that and is left with its default options: the request names no page (0).
SentPage(m, p) == IF m \in ListMethods THEN p ELSE 0

\* The page the server answers with: its first page when none is named.
ServedPage(sent) == IF sent = 0 THEN 1 ELSE sent

\* Collected putting the new page in front.
Collected_Prepends(all, r) == IF r.present THEN r.data \o all ELSE all

\* if (result.data) allData.push(...result.data)
Collected(all, r) == IF r.present THEN all \o r.data ELSE all

\* GetAllPagesContinues stopping at a page without records as well.
GetAllPagesContinues_StopsOnEmpty(r) == r.next /\ HasData(r)

\* if (result.links && result.links.next) page++; else break;
GetAllPagesContinues(r) == r.next

\* if (!method || typeof method !== 'function') throw new Error(...)
GetAllPagesNoMethod ==
    /\ pc = "ga_loop"
    /\ ~MethodExists(methodName)
    /\ Assign([Cur EXCEPT !.pc = "thrown", !.ended = "noMethod"])
    /\ Track
    /\ UNCHANGED <<pageSize, caller, options, maxPages, requests, writes, plants, i,
                   enrichedPlants, enrichLog, allData, lastNet, httpCount,
                   pagePauses, announced, anomalies>>

\* if (maxPages && page > maxPages) break;
GetAllPagesLimit ==
    /\ pc = "ga_loop"
    /\ MethodExists(methodName)
    /\ maxPages # 0 /\ page > maxPages
    /\ Assign([Cur EXCEPT !.pc = "returned", !.ended = "ceiling"])
    /\ Track
    /\ UNCHANGED <<pageSize, caller, options, maxPages, requests, writes, plants, i,
                   enrichedPlants, enrichLog, allData, lastNet, httpCount,
                   pagePauses, announced, anomalies>>

\* methodOptions.page = page; await method.call(this, methodOptions) with a
\* function that is no API method: no request is made; a value without
\* data and links ends the walk, an error leaves getAllPages.
GetAllPagesOther ==
    /\ pc = "ga_loop"
    /\ MethodExists(methodName)
    /\ ~RequestsPage(methodName)
    /\ ~(maxPages # 0 /\ page > maxPages)
    /\ Assign(IF methodName \in ValueFunctions
              THEN [Cur EXCEPT !.pc = "returned", !.ended = "natural"]
              ELSE IF methodName \in SelfFunctions
              THEN [Cur EXCEPT !.pc = "thrown", !.ended = "noMethodInner"]
              ELSE IF methodName \in ReportMethods
              THEN [Cur EXCEPT !.pc = "thrown", !.ended = "notes"]
              ELSE [Cur EXCEPT !.pc = "thrown", !.ended = "typeError"])
    /\ Track
    /\ UNCHANGED <<pageSize, caller, options, maxPages, requests, writes, plants, i,
                   enrichedPlants, enrichLog, allData, lastNet, httpCount,
                   pagePauses, announced, anomalies>>

\* methodOptions.page = page; await method.call(this, methodOptions): the
\* request goes out and getAllPages is suspended until it is answered
\* (a walk that never leaves the server's first page is followed for
\* MaxGetAllPages requests)
GetAllPagesRequest ==
    /\ pc = "ga_loop"
    /\ RequestsPage(methodName)
    /\ ~(maxPages # 0 /\ page > maxPages)
    /\ page <= MaxGetAllPages
    /\ httpCount' = httpCount + 1
    /\ lastNet' = "request"
    /\ Assign([Cur EXCEPT !.pc = "ga_wait"])
    /\ Track
    /\ UNCHANGED <<pageSize, caller, options, maxPages, requests, writes, plants, i,
                   enrichedPlants, enrichLog, allData, pagePauses, announced,
                   anomalies>>

\* const result = await method.call(this, methodOptions): the answer;
\* if (result.data) ...; if (result.links && result.links.next) ...
GetAllPagesFetch ==
    /\ pc = "ga_wait"
    /\ LET sent == SentPage(methodName, page) IN
       \/ /\ requests' = Append(requests, FailedRequest(sent))
          /\ Assign([Cur EXCEPT !.pc = "thrown"])
          /\ UNCHANGED <<allData, anomalies>>
       \/ \E r \in Responses(ServedPage(sent)) :
            /\ requests' = Append(requests, OkRequest(sent, r))
            /\ anomalies' = anomalies + NoIdCount(r.data)
            /\ allData' = Collected(allData, r)
            /\ Assign(IF GetAllPagesContinues(r)
                      THEN [Cur EXCEPT !.page = page + 1, !.pc = "ga_loop"]
                      ELSE [Cur EXCEPT !.pc = "returned", !.ended = "natural"])
    /\ Track
    /\ UNCHANGED <<pageSize, caller, options, maxPages, writes, plants, i, enrichedPlants,
                   enrichLog, lastNet, httpCount, pagePauses, announced>>

(* ------------------------------ a CLI run ----------------------------- *)
\* main: the fetch functions in the order they are awaited (single:
\* fetchSingleEndpoints, byId: fetchPlantsById, distributions:
\* fetchDistributionsAndCorrections)
Categories ==
    <<"single", "plants", "search", "byId", "taxonomy", "species", "distributions">>

CategoryIndex(c) == CHOOSE k \in 1 .. Len(Categories) : Categories[k] = c

NextCategory(c) == Categories[CategoryIndex(c) + 1]

\* The requests the options ask of a category other than plants.
Items(c) == IF c = "plants" THEN 0 ELSE cli[c]

\* hasAnyOption (genusList is set by --all-single only, together with zones)
HasAnyOption ==
    options.plants \/ \E k \in 1 .. Len(Categories) : Items(Categories[k]) > 0

\* SkipsNetwork with the dry-run check forgotten in fetchTaxonomy.
SkipsNetwork_NotInTaxonomy(c) == options.dryRun /\ c # "taxonomy"

\* if (options.dryRun) { logger.info('[DRY RUN] ...') } else { ... }
SkipsNetwork(c) == options.dryRun

\* fetchSearchQueries and fetchPlantsById await the pause inside the try
\* block, the other functions after the try/catch.
PauseInsideTry(c) == c \in {"search", "byId"}

\* Where the loop of category c goes on after its catch block.
AfterCatch(c) == IF PauseInsideTry(c) THEN "item" ELSE "item_pause"

\* SigintExitCode with the shell's code of a process ended by SIGINT.
SigintExitCode_Conventional == 128 + 2

\* process.exit(1) of the SIGINT handler, of the two branches of main's catch
SigintExitCode == 1
InterruptedExitCode == 1
FatalExitCode == 1

\* The search response: one page of results (its next link is not read).
SearchResponses == { r \in Responses(1) : ~r.next }

\* The outcomes of api.getPlant(plantId) in fetchPlantsById; flattenPlantData
\* is called with enrichment only.
ByIdOutcomes == { o \in DetailOutcomes : o = "flattenThrows" => options.enrichment }

\* The variables a step of the category loops leaves alone.
walkVars ==
    <<pageSize, caller, options, maxPages, page, pagesFetched, batchData,
      batchStartPage, requests, allData, pagePauses, announced, ended, cli,
      methodName, input, output, argsAfter>>

\* program.help() when no flag is given; new TrefleAPI() throws without
\* token; else await fetchSingleEndpoints(api, options)
MainStart ==
    /\ pc = "main"
    /\ IF ~HasAnyOption
       THEN pc' = "exited" /\ exitCode' = 0 /\ logged' = "help" /\ UNCHANGED category
       ELSE IF ~cli.token
       THEN pc' = "thrown" /\ UNCHANGED <<exitCode, logged, category>>
       ELSE pc' = "item" /\ category' = Categories[1] /\ UNCHANGED <<exitCode, logged>>
    /\ UNCHANGED <<walkVars, writes, plants, i, enrichedPlants, enrichLog, lastNet,
                   httpCount, anomalies, item, inFlight>>

\* The loop of the category is through: the fetch function returns.
ItemDone ==
    /\ pc = "item"
    /\ item > Items(category)
    /\ pc' = "returned"
    /\ UNCHANGED <<walkVars, writes, plants, i, enrichedPlants, enrichLog, lastNet,
                   httpCount, anomalies, category, item, inFlight, exitCode, logged>>

\* Dry run: the request is only announced in the log.
ItemDryRun ==
    /\ pc = "item"
    /\ item <= Items(category)
    /\ SkipsNetwork(category)
    /\ item' = item + 1
    /\ UNCHANGED <<walkVars, pc, writes, plants, i, enrichedPlants, enrichLog, lastNet,
                   httpCount, anomalies, category, inFlight, exitCode, logged>>

\* fetchSingleEndpoints: 'Genus list endpoint not yet implemented', then
\* await pause(randomNumber(2, 5))
ItemNoEndpoint ==
    /\ pc = "item"
    /\ item <= Items(category)
    /\ ~SkipsNetwork(category)
    /\ category = "single"
    /\ pc' = "item_pause"
    /\ inFlight' = inFlight \o AwaitedAt(pc')
    /\ UNCHANGED <<walkVars, writes, plants, i, enrichedPlants, enrichLog, lastNet,
                   httpCount, anomalies, category, item, exitCode, logged>>

\* The item is a search with an empty query: searchPlants and searchSpecies
\* throw 'Search query cannot be empty' before any request.
QueryIsEmpty(c) == cli.emptyQueries /\ c \in {"search", "species"}

\* await api.searchPlants('', ...) or api.searchSpecies('', ...): the method
\* throws, the catch block of the category logs the error.
ItemQueryEmpty ==
    /\ pc = "item"
    /\ item <= Items(category)
    /\ ~SkipsNetwork(category)
    /\ QueryIsEmpty(category)
    /\ pc' = AfterCatch(category)
    /\ item' = IF PauseInsideTry(category) THEN item + 1 ELSE item
    /\ inFlight' = inFlight \o AwaitedAt(pc')
    /\ UNCHANGED <<walkVars, writes, plants, i, enrichedPlants, enrichLog, lastNet,
                   httpCount, anomalies, category, exitCode, logged>>

\* const result = await api.<method>(...): the request goes out
ItemRequest ==
    /\ pc = "item"
    /\ item <= Items(category)
    /\ ~SkipsNetwork(category)
    /\ category # "single"
    /\ ~QueryIsEmpty(category)
    /\ pc' = "item_wait"
    /\ httpCount' = httpCount + 1
    /\ lastNet' = "request"
    /\ inFlight' = inFlight \o AwaitedAt(pc')
    /\ UNCHANGED <<walkVars, writes, plants, i, enrichedPlants, enrichLog, anomalies,
                   category, item, exitCode, logged>>

\* The request settles: the code up to the next await of the iteration.
ItemResponse ==
    /\ pc = "item_wait"
    /\ \/ \* the request failed: catch block
          /\ pc' = AfterCatch(category)
          /\ item' = IF PauseInsideTry(category) THEN item + 1 ELSE item
          /\ UNCHANGED <<plants, i, enrichedPlants, enrichLog, anomalies>>
       \/ /\ category = "search"
          /\ \E r \in SearchResponses :
               /\ plants' = r.data
               /\ anomalies' = anomalies + NoIdCount(r.data)
               /\ i' = 1
               /\ enrichedPlants' = << >>
               /\ enrichLog' = << >>
               /\ pc' = IF ~HasData(r) THEN "item_pause"
                        ELSE IF options.enrichment THEN "enrich" ELSE "item_write"
          /\ UNCHANGED item
       \/ /\ category = "byId"
          /\ \E outcome \in ByIdOutcomes :
               /\ anomalies' = IF outcome = "data" THEN anomalies ELSE anomalies + 1
               /\ pc' = IF outcome = "data" THEN "item_write"
                        ELSE IF outcome = "noData" THEN "item_pause"
                        ELSE AfterCatch(category)
               /\ item' = IF outcome \in {"data", "noData"} THEN item ELSE item + 1
          /\ UNCHANGED <<plants, i, enrichedPlants, enrichLog>>
       \/ /\ category \notin {"search", "byId"}
          /\ pc' = "item_write"
          /\ UNCHANGED <<plants, i, enrichedPlants, enrichLog, anomalies, item>>
    /\ inFlight' = Settle(inFlight) \o AwaitedAt(pc')
    /\ UNCHANGED <<walkVars, writes, lastNet, httpCount, category, exitCode, logged>>

\* return enrichedPlants; back in fetchSearchQueries: dataToSave = enrichedResults
SearchEnrichReturn ==
    /\ pc = "enrich"
    /\ category = "search"
    /\ i > Len(plants)
    /\ pc' = "item_write"
    /\ inFlight' = Settle(inFlight) \o AwaitedAt(pc')
    /\ UNCHANGED <<walkVars, writes, plants, i, enrichedPlants, enrichLog, lastNet,
                   httpCount, anomalies, category, item, exitCode, logged>>

\* await writeToFile(dataToSave, filepath, options.format) of a category
ItemWrite ==
    /\ pc = "item_write"
    /\ \E ok \in WriteOutcomes :
         /\ writes' = Append(writes,
                WriteCall(category, item, item,
                          IF category # "search" THEN << >>
                          ELSE IF options.enrichment THEN enrichedPlants ELSE plants,
                          ok))
         /\ pc' = IF ok THEN "item_pause" ELSE AfterCatch(category)
         /\ item' = IF ~ok /\ PauseInsideTry(category) THEN item + 1 ELSE item
    /\ inFlight' = Settle(inFlight) \o AwaitedAt(pc')
    /\ UNCHANGED <<walkVars, plants, i, enrichedPlants, enrichLog, lastNet, httpCount,
                   anomalies, category, exitCode, logged>>

\* await pause(randomNumber(2, 5)) of a category
ItemPause ==
    /\ pc = "item_pause"
    /\ \E seconds \in randomNumber(PauseMin, PauseMax) : pauseAccepts(seconds)
    /\ lastNet' = "pause"
    /\ item' = item + 1
    /\ pc' = "item"
    /\ inFlight' = Settle(inFlight) \o AwaitedAt(pc')
    /\ UNCHANGED <<walkVars, writes, plants, i, enrichedPlants, enrichLog, httpCount,
                   anomalies, category, exitCode, logged>>

\* main: the awaited fetch function has returned, the next one is called.
MainNext ==
    /\ pc = "returned"
    /\ CategoryIndex(category) < Len(Categories)
    /\ category' = NextCategory(category)
    /\ pc' = IF category' = "plants" THEN "start" ELSE "item"
    /\ item' = 1
    /\ UNCHANGED <<walkVars, writes, plants, i, enrichedPlants, enrichLog, lastNet,
                   httpCount, anomalies, inFlight, exitCode, logged>>

\* main: 'EXECUTION COMPLETE'; nothing is left to run, the process ends.
MainComplete ==
    /\ pc = "returned"
    /\ CategoryIndex(category) = Len(Categories)
    /\ pc' = "exited"
    /\ exitCode' = 0
    /\ logged' = "complete"
    /\ UNCHANGED <<walkVars, writes, plants, i, enrichedPlants, enrichLog, lastNet,
                   httpCount, anomalies, category, item, inFlight>>

\* The messages of the errors that reach main's catch: the constructor's
\* when the token is missing; else what writeToFile rethrew, the file
\* system's message, which holds the path of the file under process.cwd()
\* and so may hold the word 'interrupted'.
ErrorMessages == IF ~cli.token THEN {"token"} ELSE {"write", "write interrupted"}

\* error.message.includes('interrupted')
MentionsInterrupted(message) == message = "write interrupted"

\* catch (error) of main
MainCatch ==
    /\ pc = "thrown"
    /\ \E message \in ErrorMessages :
         IF MentionsInterrupted(message)
         THEN logged' = "interrupted" /\ exitCode' = InterruptedExitCode
         ELSE logged' = "fatal" /\ exitCode' = FatalExitCode
    /\ pc' = "exited"
    /\ UNCHANGED <<walkVars, writes, plants, i, enrichedPlants, enrichLog, lastNet,
                   httpCount, anomalies, category, item, inFlight>>

\* The process is suspended at an await and the event loop is free to run
\* the signal handler.
AtAwait ==
    pc \in {"page_wait", "detail_wait", "pause", "enrich_pause", "write_batch",
            "write_last", "write_final", "write_error", "item_wait", "item_write",
            "item_pause"}

\* SigintHandler letting the interrupted loop save its batch first.
SigintHandler_FlushesBatch ==
    [pc |-> IF Len(batchData) > 0 THEN "write_error" ELSE "exited",
     exitCode |-> IF Len(batchData) > 0 THEN -1 ELSE SigintExitCode,
     logged |-> "sigint"]

\* process.on('SIGINT', () => { logger.warn(...); process.exit(1); })
SigintHandler == [pc |-> "exited", exitCode |-> SigintExitCode, logged |-> "sigint"]

\* SIGINT arrives: the handler runs and the operation in flight is left
\* behind unsettled.
Interrupt ==
    /\ AtAwait
    /\ pc' = SigintHandler.pc
    /\ exitCode' = SigintHandler.exitCode
    /\ logged' = SigintHandler.logged
    /\ UNCHANGED <<walkVars, writes, inFlight, plants, i, enrichedPlants, enrichLog, lastNet,
                   httpCount, anomalies, category, item>>

(* ------------------------ one call of an API method ------------------- *)
\* Argument values tried: a non-empty value, '', null, or no argument given
ArgValues == {"value", "empty", "null", "undefined"}

\* !query, !zoneId, !notes, !this.token
Falsy(v) == v \in {"empty", "null", "undefined"}

\* The calls tried: the token of the instance is set or not, and the first
\* two arguments (query, id or options; options or notes).
ApiArguments == [token : BOOLEAN, first : ArgValues, second : ArgValues]

\* The options parameter is destructured when the method is called,
\* ({ ..., page = null } = {}): the default stands in for undefined only, a
\* string has no such keys, and null cannot be destructured (TypeError).
\* The options are the first parameter of the list methods and the second
\* of the search, zone and genus methods.
OptionsArgument(m, args) ==
    IF m \in ListMethods THEN args.first
    ELSE IF m \in SearchMethods \cup ZoneMethods \cup GenusMethods THEN args.second
    ELSE "undefined"

\* Validate checking the report notes only after the request.
Validate_NotesAfterRequest(m, args) ==
    IF OptionsArgument(m, args) = "null" THEN "typeError"
    ELSE IF ~args.token THEN "token"
    ELSE IF m \in SearchMethods /\ Falsy(args.first) THEN "query"
    ELSE IF m \in ZoneMethods /\ Falsy(args.first) THEN "zone"
    ELSE "none"

\* What a method throws before _makeRequest, in order: the TypeError of the
\* parameter list, then this._verifyToken(); if (!query) throw;
\* if (!zoneId) throw; if (!notes) throw
Validate(m, args) ==
    IF OptionsArgument(m, args) = "null" THEN "typeError"
    ELSE IF ~args.token THEN "token"
    ELSE IF m \in SearchMethods /\ Falsy(args.first) THEN "query"
    ELSE IF m \in ZoneMethods /\ Falsy(args.first) THEN "zone"
    ELSE IF m \in ReportMethods /\ Falsy(args.second) THEN "notes"
    ELSE "none"

\* await api[methodName](first, second): the checks, then _makeRequest,
\* whose request goes out (await axios.get or axios.post).
ApiCall ==
    /\ caller = "api" /\ pc = "call"
    /\ LET err == Validate(methodName, input) IN
       IF err # "none"
       THEN /\ output' = [threw |-> err, sent |-> httpCount]
            /\ pc' = "thrown"
            /\ UNCHANGED <<httpCount, lastNet>>
       ELSE /\ httpCount' = httpCount + 1
            /\ lastNet' = "request"
            /\ pc' = "call_wait"
            /\ UNCHANGED output
    /\ UNCHANGED <<pageSize, caller, options, maxPages, page, pagesFetched, batchData,
                   batchStartPage, requests, writes, plants, i, enrichedPlants,
                   enrichLog, allData, pagePauses, announced, ended, anomalies,
                   category, cli, item, inFlight, exitCode, logged, methodName, input,
                   argsAfter>>

\* The request settles: _makeRequest returns response.data or rethrows the
\* error of axios.
ApiSettles ==
    /\ caller = "api" /\ pc = "call_wait"
    /\ \E ok \in BOOLEAN :
         /\ output' = [threw |-> IF ok THEN "none" ELSE "http", sent |-> httpCount]
         /\ pc' = IF ok THEN "returned" ELSE "thrown"
    /\ UNCHANGED <<pageSize, caller, options, maxPages, page, pagesFetched, batchData,
                   batchStartPage, requests, writes, plants, i, enrichedPlants,
                   enrichLog, allData, lastNet, httpCount, pagePauses, announced,
                   ended, anomalies, category, cli, item, inFlight, exitCode, logged,
                   methodName, input, argsAfter>>

(* --------------------------- flattenPlantData ------------------------- *)
\* JavaScript values: undefined, null, a falsy scalar ('', 0, false), a
\* string that is not empty (the name of what it stands for followed by a
\* number, as in 'synonym1', or one character), a number, an array, an
\* object (a function from its own keys to values).  Values of two kinds
\* have different numbers of fields, which tells them apart before their
\* contents are compared.
Undefined == [t |-> "undefined"]
Null == [t |-> "null"]
FalsyScalar == [t |-> "falsy"]
Val(src, k) == [t |-> "val", v |-> <<src, k>>, scalar |-> TRUE]
Chr(c) == [t |-> "val", v |-> <<c>>, scalar |-> TRUE]
Num(n) == [t |-> "num", v |-> n]
List(q) == [t |-> "list", v |-> q, array |-> TRUE, ordered |-> TRUE]
Map(f) == [t |-> "map", v |-> f, object |-> TRUE, array |-> FALSE, keyed |-> TRUE]
EmptyMap == Map(<< >>)
EmptyList == List(<< >>)

Truthy(x) ==
    /\ x.t \notin {"undefined", "null", "falsy"}
    /\ x.t = "num" => x.v # 0

\* x.key: undefined unless x is an object that has the key (reading a key
\* of undefined or null throws: see FlattenThrows)
Get(x, key) == IF x.t = "map" /\ key \in DOMAIN x.v THEN x.v[key] ELSE Undefined

\* x?.key
OptGet(x, key) == IF x.t \in {"undefined", "null"} THEN Undefined ELSE Get(x, key)

\* x || d
Or(x, d) == IF Truthy(x) THEN x ELSE d

\* Array.isArray(x), typeof x === 'object'
IsArray(x) == x.t = "list"
TypeofObject(x) == x.t \in {"map", "list", "null"}

\* The characters of a string.
Text(x) == IF Len(x.v) = 1 THEN x.v[1] ELSE x.v[1] \o ToString(x.v[2])

\* The k-th index key of an array or a string: '0', '1', ...
IndexKey(k) == ToString(k - 1)

\* The own enumerable properties of x, as a function from the keys to the
\* values (what Object.entries and { ...x } go through): the keys of an
\* object, the index keys of an array, those of the characters of a string;
\* undefined, null, numbers and booleans have none.
Entries(x) ==
    IF x.t = "map" THEN x.v
    ELSE IF x.t = "list"
    THEN [key \in {IndexKey(k) : k \in 1 .. Len(x.v)} |->
             x.v[CHOOSE k \in 1 .. Len(x.v) : IndexKey(k) = key]]
    ELSE IF x.t = "val"
    THEN [key \in {IndexKey(k) : k \in 1 .. Len(Text(x))} |->
             Chr(LET k == CHOOSE j \in 1 .. Len(Text(x)) : IndexKey(j) = key
                 IN SubSeq(Text(x), k, k))]
    ELSE << >>

\* q.slice(0, n)
Slice(q, n) == SubSeq(q, 1, IF Len(q) < n THEN Len(q) ELSE n)

rootProps ==
    {"id", "common_name", "slug", "scientific_name", "year", "bibliography",
     "author", "status", "rank", "family_common_name", "genus_id", "image_url",
     "observations", "vegetable"}

mainSpeciesProps == {"rank", "observations", "duration", "edible_part", "edible"}

\* flattened.<out> = <group>.<key> or <group>.<key>?.<unit>, with
\* <group> = mainSpecies.<group> || {}
Nested(out, group, key, unit) == [out |-> out, group |-> group, key |-> key, unit |-> unit]

NestedFields ==
    { Nested("flower_color", "flower", "color", ""),
      Nested("flower_conspicuous", "flower", "conspicuous", ""),
      Nested("foliage_texture", "foliage", "texture", ""),
      Nested("foliage_color", "foliage", "color", ""),
      Nested("foliage_leaf_retention", "foliage", "leaf_retention", ""),
      Nested("fruit_conspicuous", "fruit_or_seed", "conspicuous", ""),
      Nested("fruit_color", "fruit_or_seed", "color", ""),
      Nested("fruit_shape", "fruit_or_seed", "shape", ""),
      Nested("fruit_seed_persistence", "fruit_or_seed", "seed_persistence", ""),
      Nested("spec_ligneous_type", "specifications", "ligneous_type", ""),
      Nested("spec_growth_form", "specifications", "growth_form", ""),
      Nested("spec_growth_habit", "specifications", "growth_habit", ""),
      Nested("spec_growth_rate", "specifications", "growth_rate", ""),
      Nested("spec_average_height_cm", "specifications", "average_height", "cm"),
      Nested("spec_maximum_height_cm", "specifications", "maximum_height", "cm"),
      Nested("spec_nitrogen_fixation", "specifications", "nitrogen_fixation", ""),
      Nested("spec_shape_and_orientation", "specifications", "shape_and_orientation", ""),
      Nested("spec_toxicity", "specifications", "toxicity", ""),
      Nested("growth_description", "growth", "description", ""),
      Nested("growth_sowing", "growth", "sowing", ""),
      Nested("growth_days_to_harvest", "growth", "days_to_harvest", ""),
      Nested("growth_row_spacing_cm", "growth", "row_spacing", "cm"),
      Nested("growth_spread_cm", "growth", "spread", "cm"),
      Nested("growth_ph_maximum", "growth", "ph_maximum", ""),
      Nested("growth_ph_minimum", "growth", "ph_minimum", ""),
      Nested("growth_light", "growth", "light", ""),
      Nested("growth_atmospheric_humidity", "growth", "atmospheric_humidity", ""),
      Nested("growth_months", "growth", "growth_months", ""),
      Nested("growth_bloom_months", "growth", "bloom_months", ""),
      Nested("growth_fruit_months", "growth", "fruit_months", ""),
      Nested("growth_minimum_precipitation_mm", "growth", "minimum_precipitation", "mm"),
      Nested("growth_maximum_precipitation_mm", "growth", "maximum_precipitation", "mm"),
      Nested("growth_minimum_root_depth_cm", "growth", "minimum_root_depth", "cm"),
      Nested("growth_minimum_temperature_deg_f", "growth", "minimum_temperature", "deg_f"),
      Nested("growth_minimum_temperature_deg_c", "growth", "minimum_temperature", "deg_c"),
      Nested("growth_maximum_temperature_deg_f", "growth", "maximum_temperature", "deg_f"),
      Nested("growth_maximum_temperature_deg_c", "growth", "maximum_temperature", "deg_c"),
      Nested("growth_soil_nutriments", "growth", "soil_nutriments", ""),
      Nested("growth_soil_salinity", "growth", "soil_salinity", ""),
      Nested("growth_soil_texture", "growth", "soil_texture", ""),
      Nested("growth_soil_humidity", "growth", "soil_humidity", "") }

NestedKeys == { f.out : f \in NestedFields }
NestedField(out) == CHOOSE f \in NestedFields : f.out = out

\* The keys of the record flattenPlantData returns.
FlatKeys ==
    rootProps \cup mainSpeciesProps \cup NestedKeys
        \cup {"synonyms", "images", "distributions", "source", "genus", "family"}

\* FlatSynonyms without the cut to five.
FlatSynonyms_NoTrim(paginatedData) == Or(Get(paginatedData, "synonyms"), EmptyList)

\* const synonyms = paginatedData.synonyms || [];
\* Array.isArray(synonyms) && synonyms.length > 5 ? synonyms.slice(0, 5) : synonyms
FlatSynonyms(paginatedData) ==
    LET synonyms == Or(Get(paginatedData, "synonyms"), EmptyList) IN
    IF IsArray(synonyms) /\ Len(synonyms.v) > DefaultMaxSynonyms
    THEN List(Slice(synonyms.v, DefaultMaxSynonyms))
    ELSE synonyms

\* img => typeof img === 'object' ? {image_url, copyright} : img
ImageProjection(img) ==
    IF TypeofObject(img)
    THEN Map([image_url |-> Get(img, "image_url"), copyright |-> Get(img, "copyright")])
    ELSE img

\* ImageKept keeping every entry.
ImageKept_All(img) == TRUE

\* img => img && (img.image_url || img.copyright)
ImageKept(img) ==
    Truthy(img) /\ (Truthy(Get(img, "image_url")) \/ Truthy(Get(img, "copyright")))

\* imageList.slice(0, 2).map(...).filter(...)
TrimmedImageList(imageList) ==
    LET firstTwo == Slice(imageList.v, 2)
        projected == [k \in 1 .. Len(firstTwo) |-> ImageProjection(firstTwo[k])]
    IN SelectSeq(projected, ImageKept)

\* The image types that make it into trimmedImages.
ImageTypeKept(images, imageType) ==
    LET imageList == Entries(images)[imageType] IN
    /\ Truthy(imageList) /\ IsArray(imageList) /\ imageType # ""
    /\ Len(TrimmedImageList(imageList)) > 0

FlatImages(mainSpecies) ==
    LET images == Or(Get(mainSpecies, "images"), EmptyMap)
        types == {ty \in DOMAIN Entries(images) : ImageTypeKept(images, ty)}
    IN Map([ty \in types |-> List(TrimmedImageList(Entries(images)[ty]))])

\* a.species_count ?? 0
Count(entry) ==
    LET c == Get(entry, "species_count") IN
    IF c.t \in {"undefined", "null"} THEN 0 ELSE c.v

\* dist => ({ name: dist.name, species_count: dist.species_count })
DistProjection(dist) ==
    Map([name |-> Get(dist, "name"), species_count |-> Get(dist, "species_count")])

\* InsertByCount putting the entry in front of the entries of equal count.
InsertByCount_BeforeTies(e, sorted) ==
    LET before == SelectSeq(sorted, LAMBDA x : Count(x) > Count(e))
        after == SelectSeq(sorted, LAMBDA x : Count(x) <= Count(e))
    IN before \o <<e>> \o after

\* Where a stable sort with the comparator countB - countA puts an entry
\* that stood behind the entries already sorted: behind every entry whose
\* count is not smaller.
InsertByCount(e, sorted) ==
    LET before == SelectSeq(sorted, LAMBDA x : Count(x) >= Count(e))
        after == SelectSeq(sorted, LAMBDA x : Count(x) < Count(e))
    IN before \o <<e>> \o after

\* .sort((a, b) => (b.species_count ?? 0) - (a.species_count ?? 0)),
\* Array.prototype.sort being stable
RECURSIVE SortByCount(_)
SortByCount(q) ==
    IF q = << >> THEN << >>
    ELSE InsertByCount(q[Len(q)], SortByCount(SubSeq(q, 1, Len(q) - 1)))

\* distList.map(...).sort(...).slice(0, 5)
TrimmedDistList(distList) ==
    Slice(SortByCount([k \in 1 .. Len(distList.v) |-> DistProjection(distList.v[k])]), 5)

\* const distList = distributions[distType] || []
DistList(mainSpecies, distType) ==
    Or(Get(Or(Get(mainSpecies, "distributions"), EmptyMap), distType), EmptyList)

\* Array.isArray(distList) && distList.length > 0 (and the trimmed list is
\* not empty)
DistTypeKept(mainSpecies, distType) ==
    LET distList == DistList(mainSpecies, distType) IN
    IsArray(distList) /\ Len(distList.v) > 0 /\ Len(TrimmedDistList(distList)) > 0

FlatDistributions(mainSpecies) ==
    Map([ty \in {ty \in {"native", "introduced"} : DistTypeKept(mainSpecies, ty)}
            |-> List(TrimmedDistList(DistList(mainSpecies, ty)))])

\* SourceHasUrl taking any object, with a url or without.
SourceHasUrl_AnyObject(source) == Truthy(source) /\ TypeofObject(source)

\* source && typeof source === 'object' && source.url
SourceHasUrl(source) ==
    Truthy(source) /\ TypeofObject(source) /\ Truthy(Get(source, "url"))

findFirstSourceWithUrl(sources) ==
    IF ~Truthy(sources) \/ ~IsArray(sources) THEN Null
    ELSE LET hits == {k \in 1 .. Len(sources.v) : SourceHasUrl(sources.v[k])} IN
         IF hits = {} THEN Null
         ELSE sources.v[CHOOSE k \in hits : \A j \in hits : k <= j]

\* const genus = mainSpecies.genus || {};
\* typeof genus === 'object' ? genus.name : genus    (family alike)
NameOf(mainSpecies, key) ==
    LET x == Or(Get(mainSpecies, key), EmptyMap) IN
    IF TypeofObject(x) THEN Get(x, "name") ELSE x

\* flattened.<out> of one nested field
NestedValue(mainSpecies, f) ==
    LET group == Or(Get(mainSpecies, f.group), EmptyMap) IN
    IF f.unit = "" THEN Get(group, f.key) ELSE OptGet(Get(group, f.key), f.unit)

\* const mainSpecies = detailedData.main_species || {}
MainSpecies(detailedData) == Or(Get(detailedData, "main_species"), EmptyMap)

\* The record flattenPlantData(paginatedData, detailedData) returns.  The
\* root properties are assigned first, the main species properties after
\* them: rank and observations end up with the main species' value.
Flattened(paginatedData, detailedData) ==
    LET mainSpecies == MainSpecies(detailedData) IN
    [k \in FlatKeys |->
        IF k \in mainSpeciesProps THEN Get(mainSpecies, k)
        ELSE IF k \in rootProps THEN Get(paginatedData, k)
        ELSE IF k = "synonyms" THEN FlatSynonyms(paginatedData)
        ELSE IF k = "images" THEN FlatImages(mainSpecies)
        ELSE IF k = "distributions" THEN FlatDistributions(mainSpecies)
        ELSE IF k = "source"
             THEN findFirstSourceWithUrl(Or(Get(mainSpecies, "sources"), EmptyList))
        ELSE IF k \in {"genus", "family"} THEN NameOf(mainSpecies, k)
        ELSE NestedValue(mainSpecies, NestedField(k))]

\* The structures of main_species whose properties are read.
Groups ==
    {"images", "distributions", "flower", "foliage", "fruit_or_seed", "specifications",
     "growth", "genus", "family"}

\* Defaulted without the default.
Defaulted_Bare(x) == x

\* const <group> = mainSpecies.<group> || {}: the object whose properties
\* are read
Defaulted(x) == Or(x, EmptyMap)

\* A property of undefined or null is read (TypeError): of an argument, of
\* main_species or one of its structures, of an entry of a distributions
\* list, of a null entry among the first two of an image list.
FlattenThrows(paginatedData, detailedData) ==
    \/ paginatedData.t \in {"undefined", "null"}
    \/ detailedData.t \in {"undefined", "null"}
    \/ Defaulted(Get(detailedData, "main_species")).t \in {"undefined", "null"}
    \/ \E g \in Groups :
          Defaulted(Get(MainSpecies(detailedData), g)).t \in {"undefined", "null"}
    \/ LET mainSpecies == MainSpecies(detailedData)
           images == Or(Get(mainSpecies, "images"), EmptyMap)
       IN \/ \E ty \in {"native", "introduced"} :
                LET distList == DistList(mainSpecies, ty) IN
                /\ IsArray(distList)
                /\ \E k \in 1 .. Len(distList.v) : distList.v[k].t \in {"undefined", "null"}
          \/ \E ty \in DOMAIN Entries(images) :
                   LET imageList == Entries(images)[ty] IN
                   /\ IsArray(imageList) /\ ty # ""
                   /\ \E k \in 1 .. Len(Slice(imageList.v, 2)) : imageList.v[k].t = "null"

\* The array that .sort reorders in place: distList.map(...) returns a new
\* array and .sort is called on that one.
SortedArray == "mapped"

\* The detail record as a call that returned leaves it: its lists are only
\* read (slice, map and filter return new arrays); the one operation that
\* works in place is the .sort of the distributions.
DetailAfter(detailedData) ==
    LET mainSpecies == MainSpecies(detailedData)
        distributions == Get(mainSpecies, "distributions")
    IN IF SortedArray = "mapped" \/ distributions.t # "map" THEN detailedData
       ELSE Map([detailedData.v EXCEPT !["main_species"] =
                Map([mainSpecies.v EXCEPT !["distributions"] =
                    Map([ty \in DOMAIN distributions.v |->
                            IF ty \in {"native", "introduced"} /\ IsArray(distributions.v[ty])
                            THEN List(SortByCount(distributions.v[ty].v))
                            ELSE distributions.v[ty]])])])

\* const flattened = flattenPlantData(paginatedData, detailedData)
FlattenCall ==
    /\ caller = "flatten" /\ pc = "call"
    /\ IF FlattenThrows(input.paginatedData, input.detailedData)
       THEN /\ pc' = "thrown"
            /\ output' = << >>
            /\ argsAfter' = input
       ELSE /\ pc' = "returned"
            /\ output' = Flattened(input.paginatedData, input.detailedData)
            /\ argsAfter' = [paginatedData |-> input.paginatedData,
                             detailedData |-> DetailAfter(input.detailedData)]
    /\ UNCHANGED <<pageSize, caller, options, maxPages, page, pagesFetched, batchData,
                   batchStartPage, requests, writes, plants, i, enrichedPlants,
                   enrichLog, allData, lastNet, httpCount, pagePauses, announced,
                   ended, anomalies, category, cli, item, inFlight, exitCode,
                   logged, methodName, input>>

\* flattenPlantData is called a second time with the same two objects.
FlattenAgain ==
    /\ caller = "flatten" /\ pc = "returned"
    /\ pc' = "returned_again"
    /\ output' = [first |-> output,
                  second |-> Flattened(argsAfter.paginatedData, argsAfter.detailedData)]
    /\ argsAfter' = [paginatedData |-> argsAfter.paginatedData,
                     detailedData |-> DetailAfter(argsAfter.detailedData)]
    /\ UNCHANGED <<pageSize, caller, options, maxPages, page, pagesFetched, batchData,
                   batchStartPage, requests, writes, plants, i, enrichedPlants,
                   enrichLog, allData, lastNet, httpCount, pagePauses, announced,
                   ended, anomalies, category, cli, item, inFlight, exitCode,
                   logged, methodName, input>>

(* -------------------------- trimPlantSynonyms ------------------------- *)
\* { ...plant }: a new object with the own keys of plant (none for null and
\* undefined, the index keys for an array and for a string)
Spread(plant) == Map(Entries(plant))

\* maxSynonyms = 5 when the argument is not given
MaxSynonymsOf(arg) == IF arg.t = "undefined" THEN DefaultMaxSynonyms ELSE arg.v

\* TrimTarget with the assignment made to the plant that was handed in.
TrimTarget_Original == "original"

\* The object whose synonyms key is assigned: plantCopy, the shallow copy.
TrimTarget == "copy"

\* What plants.map's callback returns for one plant.
TrimOne(plant, maxSynonyms) ==
    LET plantCopy == Spread(plant)
        synonyms == Get(plantCopy, "synonyms")
    IN IF IsArray(synonyms) /\ Len(synonyms.v) > maxSynonyms
       THEN Map([plantCopy.v EXCEPT !["synonyms"] = List(Slice(synonyms.v, maxSynonyms))])
       ELSE plantCopy

\* The plant as the callback leaves it.
PlantAfter(plant, maxSynonyms) ==
    IF TrimTarget = "copy" \/ plant.t # "map" THEN plant ELSE TrimOne(plant, maxSynonyms)

\* trimPlantSynonyms(plants, maxSynonyms) of config.js on JavaScript values
Trimmed(plantList, maxSynonyms) ==
    IF ~Truthy(plantList) \/ ~IsArray(plantList) THEN plantList
    ELSE List([k \in 1 .. Len(plantList.v) |-> TrimOne(plantList.v[k], maxSynonyms)])

\* const trimmed = trimPlantSynonyms(plants, maxSynonyms)
TrimCall ==
    /\ caller = "trimPlantSynonyms" /\ pc = "call"
    /\ pc' = "returned"
    /\ output' = Trimmed(input.plants, MaxSynonymsOf(input.maxSynonyms))
    /\ argsAfter' =
          [input EXCEPT !.plants =
              IF IsArray(input.plants)
              THEN List([k \in 1 .. Len(input.plants.v) |->
                            PlantAfter(input.plants.v[k], MaxSynonymsOf(input.maxSynonyms))])
              ELSE input.plants]
    /\ UNCHANGED <<pageSize, caller, options, maxPages, page, pagesFetched, batchData,
                   batchStartPage, requests, writes, plants, i, enrichedPlants,
                   enrichLog, allData, lastNet, httpCount, pagePauses, announced,
                   ended, anomalies, category, cli, item, inFlight, exitCode,
                   logged, methodName, input>>

\* const source = findFirstSourceWithUrl(sources)
SourceCall ==
    /\ caller = "findFirstSourceWithUrl" /\ pc = "call"
    /\ pc' = "returned"
    /\ output' = findFirstSourceWithUrl(input.sources)
    /\ argsAfter' = input
    /\ UNCHANGED <<pageSize, caller, options, maxPages, page, pagesFetched, batchData,
                   batchStartPage, requests, writes, plants, i, enrichedPlants,
                   enrichLog, allData, lastNet, httpCount, pagePauses, announced,
                   ended, anomalies, category, cli, item, inFlight, exitCode,
                   logged, methodName, input>>

(* ------------------------------- callAPI ----------------------------- *)
\* What is thrown or rejected with: an error object with its message, name
\* and response (status 0: the response carries none), or null/undefined.
ErrorValue(message, name, response, status) ==
    [nullish |-> FALSE, message |-> message, name |-> name, response |-> response,
     status |-> status]

NullishError == [ErrorValue("", "", FALSE, 0) EXCEPT !.nullish = TRUE]

\* The TypeError of reading .message of null or undefined
MessageOfNullish == ErrorValue("message of nullish", "TypeError", FALSE, 0)

\* writeToFile: throw new Error('Filepath is required')
FilepathRequired == ErrorValue("Filepath is required", "Error", FALSE, 0)

\* The file system's error, which writeToFile rethrows
WriteFailed == ErrorValue("write failed", "Error", FALSE, 0)

\* What the API method may fail with: HTTP errors with and without status,
\* an error without response, something thrown that has no name and no
\* message, null or undefined.
ApiErrors ==
    { ErrorValue("http", "AxiosError", TRUE, st) : st \in {0, 429, 502, 404} }
        \cup { ErrorValue("failed", "Error", FALSE, 0),
               ErrorValue("undefined", "", FALSE, 0),
               NullishError }

\* What the API method may resolve with.
ApiData == {"data", "falsy", "null", "undefined"}

\* return { success: true, error: null, errorType: null, statusCode: null }
\* (null is written "null", a null status code 0)
Success == [success |-> TRUE, error |-> "null", errorType |-> "null", statusCode |-> 0]

\* catch (error) { ... }: where callAPI ends and with what
Caught(error, continueOnError) ==
    IF error.nullish
    THEN [pc |-> "thrown", output |-> [threw |-> MessageOfNullish]]
    ELSE IF ~continueOnError
    THEN [pc |-> "thrown", output |-> [threw |-> error]]
    ELSE [pc |-> "returned",
          output |-> [success |-> FALSE,
                      error |-> error.message,
                      errorType |-> IF error.response THEN "HTTPError"
                                    ELSE IF error.name = "" THEN "Error" ELSE error.name,
                      statusCode |-> IF error.response THEN error.status ELSE 0]]

\* data = await apiMethod() or await apiMethod(params): the method is called
CallApiStart ==
    /\ caller = "callAPI" /\ pc = "call"
    /\ pc' = "api_wait"
    /\ httpCount' = httpCount + 1
    /\ UNCHANGED <<pageSize, caller, options, maxPages, page, pagesFetched, batchData,
                   batchStartPage, requests, writes, plants, i, enrichedPlants,
                   enrichLog, allData, lastNet, pagePauses, announced, ended,
                   anomalies, category, cli, item, inFlight, exitCode, logged,
                   methodName, input, output, argsAfter>>

\* The method settles; null or undefined data ends the call
CallApiSettles ==
    /\ caller = "callAPI" /\ pc = "api_wait"
    /\ \/ \E data \in ApiData :
             /\ requests' = Append(requests,
                    [withParams |-> input.params \notin {"null", "undefined"},
                     ok |-> TRUE, data |-> data, error |-> NullishError])
             /\ IF data \in {"null", "undefined"}
                THEN pc' = "returned" /\ output' = Success
                ELSE pc' = "write_wait" /\ UNCHANGED output
       \/ \E error \in ApiErrors :
             /\ requests' = Append(requests,
                    [withParams |-> input.params \notin {"null", "undefined"},
                     ok |-> FALSE, data |-> "undefined", error |-> error])
             /\ pc' = Caught(error, input.continueOnError).pc
             /\ output' = Caught(error, input.continueOnError).output
    /\ UNCHANGED <<pageSize, caller, options, maxPages, page, pagesFetched, batchData,
                   batchStartPage, writes, plants, i, enrichedPlants, enrichLog,
                   allData, lastNet, httpCount, pagePauses, announced, ended,
                   anomalies, category, cli, item, inFlight, exitCode, logged,
                   methodName, input, argsAfter>>

\* await writeToFile(data, filepath)
CallApiWrite ==
    /\ caller = "callAPI" /\ pc = "write_wait"
    /\ IF input.filepath = ""
       THEN /\ pc' = Caught(FilepathRequired, input.continueOnError).pc
            /\ output' = Caught(FilepathRequired, input.continueOnError).output
            /\ UNCHANGED writes
       ELSE \E ok \in WriteOutcomes :
               /\ writes' = Append(writes, WriteCall("callAPI", 0, 0, << >>, ok))
               /\ IF ok
                  THEN pc' = "returned" /\ output' = Success
                  ELSE /\ pc' = Caught(WriteFailed, input.continueOnError).pc
                       /\ output' = Caught(WriteFailed, input.continueOnError).output
    /\ UNCHANGED <<pageSize, caller, options, maxPages, page, pagesFetched, batchData,
                   batchStartPage, requests, plants, i, enrichedPlants, enrichLog,
                   allData, lastNet, httpCount, pagePauses, announced, ended,
                   anomalies, category, cli, item, inFlight, exitCode, logged,
                   methodName, input, argsAfter>>

(* ---------------------------------------------------------------------- *)
Next ==
    \/ Start
    \/ ReachedLimit
    \/ DryRunPage
    \/ RequestPage
    \/ FetchPage
    \/ PagePause
    \/ RequestDetail
    \/ EnrichRecord
    \/ EnrichPause
    \/ EnrichReturn
    \/ WriteBatch
    \/ WriteLast
    \/ WriteFinal
    \/ WriteError
    \/ GetAllPagesNoMethod
    \/ GetAllPagesLimit
    \/ GetAllPagesOther
    \/ GetAllPagesRequest
    \/ GetAllPagesFetch

Spec == Init /\ [][Next]_vars

\* One plant walk, dry or real, over pages of one record.
InitWalk ==
    /\ Init
    /\ caller = "fetchPlants"
    /\ options.plants
    /\ pageSize = 1

NextWalk ==
    \/ Start
    \/ ReachedLimit
    \/ DryRunPage
    \/ RequestPage
    \/ FetchPage
    \/ PagePause
    \/ RequestDetail
    \/ EnrichRecord
    \/ EnrichPause
    \/ EnrichReturn
    \/ WriteBatch
    \/ WriteLast
    \/ WriteFinal
    \/ WriteError

\* The plant walk in which no step is put off for ever: a step that awaits
\* nothing runs on, and what is awaited settles.
SpecWalk == InitWalk /\ [][NextWalk]_vars /\ WF_vars(NextWalk)

\* The work the options ask for: the plant walk and the requests of the
\* other categories.
Requested(o, c) ==
    (IF o.plants THEN 1 ELSE 0)
        + c.single + c.search + c.byId + c.taxonomy + c.species + c.distributions

CliSets ==
    { c \in [token : BOOLEAN, single : 0 .. 1, search : 0 .. MaxItems,
             byId : 0 .. MaxItems, taxonomy : 0 .. MaxItems,
             species : 0 .. MaxItems, distributions : 0 .. MaxItems,
             emptyQueries : BOOLEAN, startPage : 0 .. MaxStartPage] :
        /\ c.single > 0 => c.distributions > 0
        /\ c.emptyQueries => c.search + c.species > 0 }

\* The options of a run that asks the categories c.  With --dry-run a
\* category is asked nothing or MaxItems requests; without it the run asks
\* for at most MaxItems pieces of work and a plant walk has a page limit, a
\* full batch and more when nothing else is asked and --start-page is not
\* given.  The start page is what the option parser makes of --start-page,
\* which is tried with a plant walk only and, without --dry-run, with a
\* plant walk that is not enriched and is all the run asks for.
CliOptionSets(c) ==
    { o \in Options({StartPageOption(c.startPage)}) :
        /\ ~o.plants => (c.startPage = 0 /\ o.pages = 0)
        /\ o.dryRun =>
               /\ o.pages \in 0 .. MaxExtraPages
               /\ \A k \in 1 .. Len(Categories) :
                     Categories[k] \notin {"plants", "single"}
                        => c[Categories[k]] \in {0, MaxItems}
        /\ ~o.dryRun => Requested(o, c) <= MaxItems
        /\ (o.plants /\ ~o.dryRun) =>
               /\ c.startPage # 0 => (Requested(o, c) = 1 /\ ~o.enrichment)
               /\ o.pages > 0
               /\ o.pages \in IF Requested(o, c) = 1 /\ c.startPage = 0
                               THEN PageLimits(o.enrichment, FALSE)
                               ELSE 0 .. MaxExtraPages }

\* One run of main().
InitCli ==
    /\ caller = "fetchPlants"
    /\ pc = "main"
    /\ category = "main"
    /\ cli \in CliSets
    /\ options \in CliOptionSets(cli)
    /\ maxPages = 0
    /\ pageSize = 1
    /\ page = options.startPage
    /\ batchStartPage = page
    /\ methodName = "getPlants"
    /\ input = << >>
    /\ output = << >>
    /\ Quiet

NextCli ==
    \/ Start
    \/ ReachedLimit
    \/ DryRunPage
    \/ RequestPage
    \/ FetchPage
    \/ PagePause
    \/ RequestDetail
    \/ EnrichRecord
    \/ EnrichPause
    \/ EnrichReturn
    \/ WriteBatch
    \/ WriteLast
    \/ WriteFinal
    \/ WriteError
    \/ MainStart
    \/ ItemDone
    \/ ItemDryRun
    \/ ItemNoEndpoint
    \/ ItemQueryEmpty
    \/ ItemRequest
    \/ ItemResponse
    \/ SearchEnrichReturn
    \/ ItemWrite
    \/ ItemPause
    \/ MainNext
    \/ MainComplete
    \/ MainCatch
    \/ Interrupt

SpecCli == InitCli /\ [][NextCli]_vars

\* One call of one method of a TrefleAPI instance.
InitApi ==
    /\ caller = "api"
    /\ pc = "call"
    /\ methodName \in Methods
    /\ input \in ApiArguments
    /\ output = << >>
    /\ options = NoOptions
    /\ maxPages = 0
    /\ pageSize = 1
    /\ category = "none"
    /\ cli = NoCli
    /\ page = 1
    /\ batchStartPage = 1
    /\ Quiet

NextApi ==
    \/ ApiCall
    \/ ApiSettles

(* inputs of flattenPlantData *)
SummaryKeys == rootProps \cup {"synonyms"}

\* A summary record that has the keys in present; its synonyms list has
\* seven entries.
SummaryOf(present) ==
    Map([k \in present |->
            IF k = "synonyms" THEN List([j \in 1 .. 7 |-> Val("synonym", j)])
            ELSE Val("summary", k)])

Summaries ==
    { SummaryOf(present) :
        present \in {SummaryKeys, {}}
                        \cup { SummaryKeys \ {k} : k \in SummaryKeys }
                        \cup SUBSET {"id", "rank", "observations"} }

\* A main_species mapping that has every structure flattenPlantData reads:
\* genus as a mapping, family as a bare string, three flower images, a
\* source without url before one with url.
FullMainSpecies ==
    [rank |-> Val("detail", "rank"),
     observations |-> Val("detail", "observations"),
     duration |-> Val("detail", "duration"),
     edible_part |-> Val("detail", "edible_part"),
     edible |-> Val("detail", "edible"),
     images |-> Map([flower |->
         List([j \in 1 .. 3 |-> Map([image_url |-> Val("image", j),
                                     copyright |-> Val("copyright", j),
                                     id |-> Val("imageId", j)])])]),
     distributions |-> Map([native |->
         List(<<Map([name |-> Val("zone", 1), species_count |-> Num(1)]),
                Map([name |-> Val("zone", 2), species_count |-> Num(2)])>>)]),
     flower |-> Map([color |-> Val("detail", "flower_color"),
                     conspicuous |-> Val("detail", "flower_conspicuous")]),
     foliage |-> Map([texture |-> Val("detail", "foliage_texture")]),
     fruit_or_seed |-> Map([shape |-> Val("detail", "fruit_shape")]),
     sources |-> List(<<Map([name |-> Val("source", 1)]),
                        Map([name |-> Val("source", 2), url |-> Val("url", 2)])>>),
     specifications |-> Map([growth_form |-> Val("detail", "spec_growth_form"),
                             average_height |-> Map([cm |-> Num(30)])]),
     growth |-> Map([light |-> Num(7),
                     minimum_temperature |-> Map([deg_f |-> Num(50), deg_c |-> Num(10)])]),
     genus |-> Map([name |-> Val("detail", "genus")]),
     family |-> Val("detail", "family")]

\* f without the key k
Without(f, k) == [x \in DOMAIN f \ {k} |-> f[x]]

MainSpeciesValues ==
    {Map(FullMainSpecies), EmptyMap}
        \cup { Map(Without(FullMainSpecies, k)) : k \in DOMAIN FullMainSpecies }

\* Detail records: without main_species (no key, null, undefined), or with
\* one of the main_species mappings above.
Details ==
    {EmptyMap, Map([main_species |-> Null]), Map([main_species |-> Undefined])}
        \cup { Map([main_species |-> ms]) : ms \in MainSpeciesValues }

\* species_count of an entry: missing (counted as 0 by the sort), 0 or 1
CountValues == {Undefined, Num(0), Num(1)}

\* An entry of a distributions list; k is its place in the list.
DistEntry(k, c) ==
    Map([name |-> Val("zone", k), slug |-> Val("slug", k), species_count |-> c])

\* The distributions lists of up to MaxDistLen entries.
DistLists ==
    UNION { { List([k \in 1 .. n |-> DistEntry(k, counts[k])]) :
                counts \in [1 .. n -> CountValues] } : n \in 0 .. MaxDistLen }

\* main_species.distributions with the list under native, under introduced,
\* or under native beside a one-entry introduced list.
DistributionsOf(distList) ==
    { Map([native |-> distList]),
      Map([introduced |-> distList]),
      Map([native |-> distList,
           introduced |-> List(<<DistEntry(1, Num(1))>>)]) }

\* An entry of an image list: a mapping with both fields, with one of
\* them, with neither, with an empty image_url only, a bare string, null.
ImageEntries(k) ==
    { Map([image_url |-> Val("image", k), copyright |-> Val("copyright", k),
           id |-> Val("imageId", k)]),
      Map([image_url |-> Val("image", k), id |-> Val("imageId", k)]),
      Map([copyright |-> Val("copyright", k)]),
      Map([id |-> Val("imageId", k)]),
      Map([image_url |-> FalsyScalar]),
      Val("imageName", k),
      Null }

\* The entry sequences of length n, the entry at place k from ImageEntries(k)
RECURSIVE ImageListsOfLen(_)
ImageListsOfLen(n) ==
    IF n = 0 THEN { << >> }
    ELSE { Append(q, e) : q \in ImageListsOfLen(n - 1), e \in ImageEntries(n) }

\* The image lists of up to MaxImageLen entries; k is the place of an entry.
ImageLists == { List(q) : q \in UNION { ImageListsOfLen(n) : n \in 0 .. MaxImageLen } }

\* main_species.images: a list under flower, under the empty key, beside a
\* second key; or something that is no list under flower.
ImagesOf(imageList) ==
    { Map([flower |-> imageList]),
      Map([flower |-> imageList,
           leaf |-> List(<<Map([image_url |-> Val("image", 9)])>>)]) }

OddImages ==
    { Map([flower |-> Val("image", 1)]), Map([flower |-> Null]),
      Map([flower |-> Map([image_url |-> Val("image", 1)])]),
      Map([flower |-> FalsyScalar]), Val("images", 1), Null, FalsyScalar }
        \cup { Map(("" :> imageList) @@ [leaf |-> EmptyList]) :
                   imageList \in { l \in ImageLists : Len(l.v) = 1 } }
        \cup { List(<<imageList>>) : imageList \in { l \in ImageLists : Len(l.v) = 1 } }
        \cup { List(<<imageList, imageList>>) :
                   imageList \in { l \in ImageLists : Len(l.v) = 1 } }
        \cup { EmptyList, List(<<Val("image", 1), Null>>) }

ImageInputs ==
    { [paginatedData |-> SummaryOf(SummaryKeys),
       detailedData |-> Map([main_species |-> Map([images |-> im])])] :
         im \in OddImages \cup UNION { ImagesOf(l) : l \in ImageLists } }

\* What a summary record may hold under synonyms: a list of up to
\* MaxSynonymsLen names, undefined, null, '', 0, a name, a number, a mapping.
SynonymLists ==
    { List([j \in 1 .. n |-> Val("synonym", j)]) : n \in 0 .. MaxSynonymsLen }

SynonymValues ==
    SynonymLists \cup {Undefined, Null, FalsyScalar, Num(0), Val("synonym", 1), Num(3),
                       Map([name |-> Val("synonym", 1)])}

SynonymInputs ==
    { [paginatedData |-> su, detailedData |-> Map([main_species |-> Map(FullMainSpecies)])] :
        su \in {Map([id |-> Val("summary", "id")])}
                 \cup { Map([id |-> Val("summary", "id"), synonyms |-> sy]) :
                          sy \in SynonymValues } }

\* An entry of a sources list: a mapping with a url, without one, with an
\* empty url, null, a bare string, an array.
SourceEntries(k) ==
    { Map([name |-> Val("source", k), url |-> Val("url", k)]),
      Map([name |-> Val("source", k)]),
      Map([name |-> Val("source", k), url |-> FalsyScalar]),
      Null,
      Val("source", k),
      List(<<Val("url", k)>>) }

\* The entry sequences of length n, the entry at place k from SourceEntries(k)
RECURSIVE SourceListsOfLen(_)
SourceListsOfLen(n) ==
    IF n = 0 THEN { << >> }
    ELSE { Append(q, e) : q \in SourceListsOfLen(n - 1), e \in SourceEntries(n) }

\* The sources lists of up to MaxSourcesLen entries.
SourceLists == { List(q) : q \in UNION { SourceListsOfLen(n) : n \in 0 .. MaxSourcesLen } }

\* What findFirstSourceWithUrl may be handed: a list, or null, undefined,
\* '', a string, a mapping with a url of its own.
SourceValues ==
    SourceLists \cup {Null, Undefined, FalsyScalar, Val("source", 1),
                      Map([url |-> Val("url", 1)])}

SourceInputs == { [sources |-> so] : so \in SourceValues }

FlattenSourceInputs ==
    { [paginatedData |-> SummaryOf(SummaryKeys),
       detailedData |-> Map([main_species |-> Map([sources |-> so])])] :
         so \in SourceValues }

\* A plant handed to trimPlantSynonyms (a record, null, an array, a string);
\* k is its place in the list.
TrimPlants(k) ==
    { Map([id |-> Num(k)]), Null, List(<<Val("synonym", k)>>), Val("p", k) }
        \cup { Map([id |-> Num(k), synonyms |-> sy]) :
                 sy \in SynonymLists \cup {Null, Val("synonym", 1)} }

\* The entry sequences of length n, the entry at place k from TrimPlants(k)
RECURSIVE TrimPlantListsOfLen(_)
TrimPlantListsOfLen(n) ==
    IF n = 0 THEN { << >> }
    ELSE { Append(q, e) : q \in TrimPlantListsOfLen(n - 1), e \in TrimPlants(n) }

\* The lists of up to MaxTrimPlants plants.
TrimPlantLists == { List(q) : q \in UNION { TrimPlantListsOfLen(n) : n \in 0 .. MaxTrimPlants } }

\* maxSynonyms: not given, or 0 .. MaxSynonymsLen + 1
TrimInputs ==
    { [plants |-> pl, maxSynonyms |-> mx] :
        pl \in TrimPlantLists \cup {Null, Undefined, Val("plants", 1)},
        mx \in {Undefined} \cup { Num(n) : n \in 0 .. (MaxSynonymsLen + 1) } }

\* The keys of main_species that hold a structure.
StructureKeys == Groups \cup {"sources"}

\* f with null under the keys in ks
Nulled(f, ks) == [x \in DOMAIN f |-> IF x \in ks THEN Null ELSE f[x]]

\* f without the keys in ks
Lacking(f, ks) == [x \in DOMAIN f \ ks |-> f[x]]

\* Main species in which a set of structures is absent or is null.
MissingMainSpecies ==
    { Map(Lacking(FullMainSpecies, ks)) : ks \in SUBSET StructureKeys }
        \cup { Map(Nulled(FullMainSpecies, ks)) : ks \in SUBSET StructureKeys }

\* Main species in which a list of distributions or a unit sub-mapping is
\* absent or null.
MissingInside ==
    { Map([distributions |-> Map([native |-> na, introduced |-> it]),
           specifications |-> Map([average_height |-> un, maximum_height |-> Null]),
           growth |-> Map([row_spacing |-> un, minimum_temperature |-> un,
                           maximum_precipitation |-> Map([mm |-> Num(9)])])]) :
        na \in {Null, Undefined, List(<<DistEntry(1, Num(1))>>)},
        it \in {Null, Undefined, List(<<DistEntry(1, Num(0))>>)},
        un \in {Null, Undefined, Map([cm |-> Num(3)])} }
    \cup { Map([distributions |-> EmptyMap, specifications |-> EmptyMap,
                growth |-> EmptyMap, images |-> EmptyMap]) }

\* Calls in which nested structures are missing.
MissingInputs ==
    { [paginatedData |-> su, detailedData |-> de] :
        su \in {SummaryOf(SummaryKeys), EmptyMap},
        de \in {EmptyMap, Map([main_species |-> Null])}
                 \cup { Map([main_species |-> ms]) :
                          ms \in MissingMainSpecies \cup MissingInside } }

\* Calls with each summary and each detail record.
SummaryInputs ==
    { [paginatedData |-> su, detailedData |-> de] : su \in Summaries, de \in Details }

\* Calls with each distributions list under each zone key.
DistributionInputs ==
    { [paginatedData |-> SummaryOf(SummaryKeys),
       detailedData |-> Map([main_species |-> Map([distributions |-> ds])])] :
         ds \in UNION { DistributionsOf(l) : l \in DistLists } }

\* The families of calls of flattenPlantData.
FlattenInputs ==
    <<ImageInputs, SynonymInputs, FlattenSourceInputs, MissingInputs, SummaryInputs,
      DistributionInputs>>

\* One call of flattenPlantData or of one of the helpers beside it.
InitFlatten ==
    /\ caller \in {"flatten", "findFirstSourceWithUrl", "trimPlantSynonyms"}
    /\ pc = "call"
    /\ IF caller = "flatten" THEN \E k \in DOMAIN FlattenInputs : input \in FlattenInputs[k]
       ELSE IF caller = "trimPlantSynonyms" THEN input \in TrimInputs
       ELSE input \in SourceInputs
    /\ output = << >>
    /\ methodName = "getPlant"
    /\ options = NoOptions
    /\ maxPages = 0
    /\ pageSize = 1
    /\ category = "none"
    /\ cli = NoCli
    /\ page = 1
    /\ batchStartPage = 1
    /\ Quiet

NextFlatten ==
    \/ FlattenCall
    \/ FlattenAgain
    \/ SourceCall
    \/ TrimCall

SpecFlatten == InitFlatten /\ [][NextFlatten]_vars

SpecApi == InitApi /\ [][NextApi]_vars

\* params: null, undefined, an object, an array, a scalar; filepath: a path
\* or the empty string
CallApiInputs ==
    [params : {"null", "undefined", "object", "array", "scalar"},
     filepath : {"out.json", ""},
     continueOnError : BOOLEAN]

\* One call of callAPI.
InitCallApi ==
    /\ caller = "callAPI"
    /\ pc = "call"
    /\ input \in CallApiInputs
    /\ output = << >>
    /\ methodName = "getPlants"
    /\ options = NoOptions
    /\ maxPages = 0
    /\ pageSize = 1
    /\ category = "none"
    /\ cli = NoCli
    /\ page = 1
    /\ batchStartPage = 1
    /\ Quiet

NextCallApi ==
    \/ CallApiStart
    \/ CallApiSettles
    \/ CallApiWrite

SpecCallApi == InitCallApi /\ [][NextCallApi]_vars

TypeOK ==
    /\ pc \in {"start", "loop", "pause", "enrich", "enrich_pause", "write_batch",
               "write_last", "write_final", "write_error", "ga_loop",
               "returned", "thrown", "call", "main", "item", "item_wait",
               "item_write", "item_pause", "exited", "returned_again",
               "api_wait", "write_wait", "page_wait", "detail_wait", "ga_wait",
               "call_wait"}
    /\ lastNet \in {"none", "request", "pause"}
    /\ anomalies \in 0 .. MaxAnomalies
    /\ pagesFetched \in Nat /\ page \in Nat \cup {NaN} /\ httpCount \in Nat

(* ====================================================================== *)
(*                              Properties                                *)
(* ====================================================================== *)
InPlantWalk == caller = "fetchPlants" /\ options.plants /\ ~options.dryRun

Origin(rec) == <<rec.page, rec.idx>>
Origins(recs) == [k \in 1 .. Len(recs) |-> Origin(recs[k])]

HasId(rec) == rec.id # 0
WriteOk(w) == w.ok
RequestOk(r) == r.ok
RequestFailed(r) == ~r.ok

\* The files on disk: the writeToFile calls that resolved.
Files == SelectSeq(writes, WriteOk)

\* The records the server returned for page p (empty when p was not served).
Served(p) ==
    LET ks == {k \in 1 .. Len(requests) : requests[k].page = p /\ requests[k].ok}
    IN IF ks = {} THEN << >> ELSE requests[CHOOSE k \in ks : TRUE].data

\* The records of page p that belong into the batch: all of them, or, with
\* enrichment, the ones enrichPlantData does not skip.
Kept(p) == IF options.enrichment THEN SelectSeq(Served(p), HasId) ELSE Served(p)

RECURSIVE KeptOrigins(_, _)
KeptOrigins(from, to) ==
    IF from > to THEN << >> ELSE Origins(Kept(from)) \o KeptOrigins(from + 1, to)

\* The records handed to writeToFile so far, in any call.
Handed == UNION { {w.data[k] : k \in 1 .. Len(w.data)} : w \in {writes[j] : j \in 1 .. Len(writes)} }

Ceil(a, b) == (a + b - 1) \div b

\* C1: when a non-dry-run fetchPlants returns (page limit, no next link,
\* empty page or page-fetch error), every record appended to the open batch
\* has been handed to writeToFile.
C1_NoRecordLeftUnwritten ==
    (InPlantWalk /\ pc = "returned")
        => \A k \in 1 .. Len(batchData) : batchData[k] \in Handed

\* C2: every file plants_pages_{start}-{end} holds exactly the records of
\* pages start..end, in page order and in the order of the response, and no
\* page's records are in two files.
C2_FileHoldsItsPages ==
    InPlantWalk =>
        /\ \A k \in 1 .. Len(Files) :
              Origins(Files[k].data) = KeptOrigins(Files[k].start, Files[k].end)
        /\ \A j, k \in 1 .. Len(Files) :
              j # k => \A a \in 1 .. Len(Files[j].data), b \in 1 .. Len(Files[k].data) :
                          Files[j].data[a].page # Files[k].data[b].page

\* C2 without a failing writeToFile: the same statement over the runs in
\* which every write resolved.
C2_WhenWritesResolve ==
    (\A k \in 1 .. Len(writes) : writes[k].ok) => C2_FileHoldsItsPages

C2_Witness ==
    /\ InPlantWalk /\ pc = "returned"
    /\ Len(Files) = 2 /\ Len(Files[1].data) > 1 /\ Len(Files[2].data) > 0

\* C3 as claimed: a walk of P >= 1 non-empty pages that ends without error by
\* the page limit or by a page without next link writes ceil(P / batchSize)
\* batches.
C3_WritesCeilOfPages ==
    (InPlantWalk /\ pc = "returned" /\ ended \in {"ceiling", "natural"}
       /\ pagesFetched >= 1)
        => Len(writes) = Ceil(pagesFetched, batchSize)

\* C3 amended: the walk writes ceil(P / batchSize) batches provided the final
\* partial batch holds a record; a final partial batch without records (with
\* enrichment, all its records lacked an id) is not written.
C3_WritesPerBatch ==
    (InPlantWalk /\ pc = "returned" /\ ended \in {"ceiling", "natural"}
       /\ pagesFetched >= 1)
        => /\ \A k \in 1 .. Len(writes) : writes[k].ok
           /\ Len(writes) = IF pagesFetched % batchSize = 0 \/ Len(batchData) > 0
                            THEN Ceil(pagesFetched, batchSize)
                            ELSE pagesFetched \div batchSize

\* A walk over one full batch and a partial one, ended by the page limit.
C3_Witness ==
    /\ InPlantWalk /\ pc = "returned" /\ ended = "ceiling"
    /\ pagesFetched = batchSize + 1 /\ Len(writes) = 2

(* ------------------------- enrichment properties ---------------------- *)
\* enrichPlantData has gone through all records and is about to return.
EnrichDone == InPlantWalk /\ options.enrichment /\ pc = "enrich" /\ i > Len(plants)

\* Detail requests issued so far: all requests but the page requests.
DetailRequests == httpCount - Len(requests)

RECURSIVE CountWithId(_)
CountWithId(reqs) ==
    IF reqs = << >> THEN 0
    ELSE Len(SelectSeq(Head(reqs).data, HasId)) + CountWithId(Tail(reqs))

\* Position in enrichedPlants of the record pushed for plants[k].
PushedAt(k) == Cardinality({j \in 1 .. k : enrichLog[j].outcome # "noId"})

\* C4 as claimed: enrichPlantData fetches the detail of every summary record
\* once and returns one record per input record, in page order.
C4_OneRecordPerSummary ==
    EnrichDone =>
        /\ Len(enrichedPlants) = Len(plants)
        /\ Origins(enrichedPlants) = Origins(plants)
        /\ \A k \in 1 .. Len(enrichLog) : enrichLog[k].fetched

\* C4 amended: enrichPlantData fetches the detail of every summary record
\* that has an id exactly once, and returns one record for each of them, in
\* page order; a record without id is skipped: no request, no output record.
C4_OneRecordPerSummaryWithId ==
    /\ EnrichDone =>
          /\ Origins(enrichedPlants) = Origins(SelectSeq(plants, HasId))
          /\ Len(enrichLog) = Len(plants)
          /\ \A k \in 1 .. Len(plants) : enrichLog[k].fetched <=> HasId(plants[k])
    /\ (InPlantWalk /\ options.enrichment
           /\ pc \in {"enrich", "detail_wait", "enrich_pause"})
          => /\ DetailRequests
                  = CountWithId(SubSeq(requests, 1, Len(requests) - 1))
                    + Cardinality({k \in 1 .. Len(enrichLog) : HasId(plants[k])})
                    + (IF pc = "detail_wait" THEN 1 ELSE 0)
             /\ pc = "detail_wait" => HasId(plants[i]) /\ Len(enrichLog) = i - 1

\* A page of two records, the first without id, has been gone through.
C4_Witness ==
    /\ EnrichDone
    /\ Len(plants) = 2 /\ ~HasId(plants[1])
    /\ Len(enrichedPlants) = 1 /\ enrichedPlants[1].idx = 2

FailedOutcomes == {"fail", "flattenThrows", "noData"}

\* C5: when the detail fetch fails, flattenPlantData throws or the response
\* has no data, the record pushed for that plant is the summary record
\* itself; the loop goes on to every later record and the failure does not
\* leave enrichPlantData.
C5_FailureKeepsSummary ==
    (InPlantWalk /\ options.enrichment
       /\ pc \in {"enrich", "detail_wait", "enrich_pause"}) =>
        /\ \A k \in 1 .. Len(enrichLog) :
              enrichLog[k].outcome \in FailedOutcomes
                  => enrichedPlants[PushedAt(k)] = plants[k]
        /\ Len(enrichLog) = IF pc = "enrich_pause" THEN i ELSE i - 1
        /\ \A k \in 1 .. Len(enrichLog) : enrichLog[k].idx = k

\* The first of two records failed and the second one was enriched.
C5_Witness ==
    /\ EnrichDone
    /\ Len(plants) = 2
    /\ enrichLog[1].outcome \in FailedOutcomes
    /\ enrichLog[2].outcome = "data"
    /\ enrichedPlants[1] = plants[1] /\ enrichedPlants[2].form = "flat"

(* ------------------------- page-fetch failure ------------------------- *)
FailedAt == {k \in 1 .. Len(requests) : ~requests[k].ok}
PageFetchFailed == FailedAt # {}

\* The last page that was fetched and folded into the batch.
LastProcessedPage == requests[Len(requests) - 1].page

\* C6: after a failed page fetch in fetchPlants the open batch, if it holds
\* records, is handed to writeToFile exactly once, under the end page of the
\* last page processed; no page is requested after the failure.
C6_ErrorFlushesOnceAndStops ==
    (InPlantWalk /\ PageFetchFailed) =>
        /\ FailedAt = {Len(requests)}
        /\ pc \in {"write_error", "returned", "thrown"}
        /\ pc # "write_error" =>
              LET errs == {k \in 1 .. Len(writes) : writes[k].site = "error"} IN
              IF Len(batchData) > 0
              THEN /\ errs = {Len(writes)}
                   /\ {k \in 1 .. Len(writes) : writes[k].data = batchData} = errs
                   /\ writes[Len(writes)].start = batchStartPage
                   /\ writes[Len(writes)].end = LastProcessedPage
                   /\ requests[Len(requests) - 1].ok
              ELSE errs = {}
        /\ pc = "write_error" => Len(batchData) > 0

\* The third page failed and the two pages before it were flushed.
C6_Witness ==
    /\ InPlantWalk /\ PageFetchFailed /\ pc = "returned"
    /\ Len(requests) = 3 /\ Len(writes) = 1
    /\ writes[1].end = requests[2].page /\ writes[1].ok

\* C7 as claimed: a failed page fetch makes the call of the walk fail.
C7_FailurePropagates ==
    (PageFetchFailed /\ pc \in {"returned", "thrown"}) => pc = "thrown"

\* C7 amended: getAllPages passes the failure on to its caller; fetchPlants
\* catches it, flushes the open batch and returns normally, and fails only
\* when that flush itself throws.
C7_FailureCaughtByPlantWalk ==
    PageFetchFailed =>
        /\ caller = "getAllPages" => pc = "thrown" /\ writes = << >>
        /\ caller = "fetchPlants" =>
              /\ pc \in {"write_error", "returned", "thrown"}
              /\ pc = "returned" =>
                    /\ ended = "error"
                    /\ Len(batchData) > 0 =>
                          /\ writes # << >>
                          /\ writes[Len(writes)].ok
                          /\ writes[Len(writes)].data = batchData
              /\ pc = "thrown" =>
                    /\ writes # << >>
                    /\ writes[Len(writes)].site = "error"
                    /\ ~writes[Len(writes)].ok

\* fetchPlants returned normally after a failed page fetch and a flush.
C7_Witness ==
    /\ caller = "fetchPlants" /\ PageFetchFailed /\ pc = "returned"
    /\ Len(batchData) > 0 /\ writes # << >> /\ writes[Len(writes)].ok

(* ----------------------------- rate limiting -------------------------- *)
\* C8: in the CLI no HTTP request is issued right after another one; a pause
\* lies between any two requests, also after a failed one.
C8_PauseBetweenRequests ==
    [][(caller = "fetchPlants" /\ httpCount' > httpCount) => lastNet # "request"]_vars

LastRequestedPage == requests[Len(requests)].page

\* C9 as claimed: the walk pauses between two page fetches and not after the
\* last page fetched, however the walk ends.
C9_NoPauseAfterTerminalPage ==
    InPlantWalk =>
        /\ \A k \in 1 .. Len(requests) - 1 : requests[k].page \in pagePauses
        /\ (pc = "returned" /\ ended \in {"natural", "ceiling"})
              => LastRequestedPage \notin pagePauses

\* C9 amended: the walk pauses between two page fetches; it does not pause
\* after a last page without next link; when it ends by the page limit, the
\* pause after the last page fetched has been awaited before the limit is
\* seen.
C9_PauseBetweenPages ==
    InPlantWalk =>
        /\ \A k \in 1 .. Len(requests) - 1 : requests[k].page \in pagePauses
        /\ pagePauses \subseteq {requests[k].page : k \in 1 .. Len(requests)}
        /\ (pc = "returned" /\ ended = "natural") => LastRequestedPage \notin pagePauses
        /\ (pc = "returned" /\ ended = "ceiling") => LastRequestedPage \in pagePauses

\* Two pages were fetched and the page limit ended the walk.
C9_Witness ==
    /\ InPlantWalk /\ pc = "returned" /\ ended = "ceiling"
    /\ Len(requests) = 2 /\ pagePauses = {requests[1].page, requests[2].page}

\* The page being enriched is the last one of the walk.
TerminalPage ==
    \/ ~result.next
    \/ options.pages # 0 /\ pagesFetched + 1 >= options.pages

\* C10: during enrichment a pause follows every detail fetch, failed ones
\* too, except that none follows the detail fetch of the final record of
\* the last page.
C10_PauseAfterEachDetailFetch ==
    (InPlantWalk /\ options.enrichment /\ pc \in {"enrich", "detail_wait"}) =>
        \A k \in 1 .. Len(enrichLog) :
            enrichLog[k].fetched =>
                (enrichLog[k].paused <=> ~(k = Len(plants) /\ TerminalPage))

(* ------------------------- end of a pagination walk ------------------- *)
InGetAllPages == caller = "getAllPages" /\ MethodExists(methodName)

\* The page ceiling of the running walk (0: none).
Ceiling == IF caller = "getAllPages" THEN maxPages ELSE options.pages

\* The walk is at a position from which it can issue a further page
\* request, or has issued one that is not answered yet.
WalkGoesOn ==
    pc \in {"loop", "page_wait", "pause", "ga_loop", "ga_wait", "enrich", "detail_wait",
            "enrich_pause", "write_batch"}

\* C15: a pagination walk (getAllPages and the CLI plant walk) issues no
\* further page request once a fetched page came back with empty or absent
\* data, or without next link, or once maxPages pages have been fetched; so
\* the walk ends as soon as the server returns an empty page.
C15_StopsAtEmptyPageOrLastPage ==
    (InGetAllPages \/ InPlantWalk) =>
        /\ \A k \in 1 .. Len(requests) - 1 :
              /\ requests[k].ok /\ HasData(requests[k]) /\ requests[k].next
              /\ Ceiling # 0 => k < Ceiling
        /\ (requests # << >> /\ result.ok /\ ~HasData(result)) => ~WalkGoesOn

\* C15 amended: the CLI plant walk issues no further page request after a
\* page with empty or absent data, a page without next link, or the page
\* limit.  getAllPages stops only at a page without next link or after
\* maxPages pages: after an empty page that carries a next link it requests
\* the next page.
C15_StopsAtLastPage ==
    /\ InPlantWalk =>
          /\ \A k \in 1 .. Len(requests) - 1 :
                /\ requests[k].ok /\ HasData(requests[k]) /\ requests[k].next
                /\ Ceiling # 0 => k < Ceiling
          /\ (requests # << >> /\ result.ok /\ ~HasData(result)) => ~WalkGoesOn
    /\ InGetAllPages =>
          /\ \A k \in 1 .. Len(requests) - 1 :
                /\ requests[k].ok /\ requests[k].next
                /\ Ceiling # 0 => k < Ceiling
          /\ (requests # << >> /\ result.ok /\ ~result.next) => pc = "returned"
          /\ (requests # << >> /\ result.ok /\ result.next)
                => /\ page = Len(requests) + 1
                   /\ pc = "returned" => (Ceiling # 0 /\ page > Ceiling)

\* getAllPages went on to page 2 after an empty page 1 with a next link.
C15_Witness ==
    /\ InGetAllPages /\ methodName = "getPlants" /\ pc = "returned"
    /\ Len(requests) = 2
    /\ requests[1].ok /\ ~HasData(requests[1]) /\ requests[1].next
    /\ HasData(requests[2])

(* ------------------------------ getAllPages --------------------------- *)
RECURSIVE ConcatData(_)
ConcatData(reqs) ==
    IF reqs = << >> THEN << >> ELSE Head(reqs).data \o ConcatData(Tail(reqs))

\* C16: getAllPages('getPlants', {maxPages, ...}) returns the concatenation,
\* in page order, of the data arrays of pages 1..k, k being the first page
\* without next link, or maxPages if that is smaller (maxPages null or 0: no
\* limit); it issues exactly k requests, for pages 1, 2, ..., k in this order.
C16_ReturnsPagesInOrder ==
    (caller = "getAllPages" /\ methodName = "getPlants" /\ pc = "returned") =>
        LET k == Len(requests) IN
        /\ httpCount = k
        /\ \A j \in 1 .. k : requests[j].ok /\ requests[j].page = j
        /\ \A j \in 1 .. k - 1 : requests[j].next
        /\ maxPages # 0 => k <= maxPages
        /\ k >= 1
        /\ ~requests[k].next \/ k = maxPages
        /\ allData = ConcatData(requests)

\* Two full pages were collected and maxPages = 2 ended the walk although
\* page 2 has a next link.
C16_Witness ==
    /\ caller = "getAllPages" /\ methodName = "getPlants" /\ pc = "returned"
    /\ maxPages = 2 /\ Len(requests) = 2 /\ requests[2].next
    /\ Len(allData) = 2 * pageSize /\ allData[1].page = 1
    /\ allData[Len(allData)].page = 2

\* C17: for every list or search method name accepted by getAllPages, the
\* i-th request issued by getAllPages carries page number i, so successive
\* requests advance through distinct pages.
C17_RequestCarriesPageNumber ==
    InGetAllPages => \A k \in 1 .. Len(requests) : requests[k].page = k

(* ------------------------ validation before request ------------------- *)
\* The call fails validation: the token is unset, or the query of a search
\* method, the zone id of getPlantsByZone or the notes of a report method is
\* empty, null or missing.
ValidationFails ==
    \/ ~input.token
    \/ methodName \in {"searchPlants", "searchSpecies"} /\ Falsy(input.first)
    \/ methodName = "getPlantsByZone" /\ Falsy(input.first)
    \/ methodName \in {"reportPlant", "reportSpecies"} /\ Falsy(input.second)

\* C18: for every API method, a validation failure (unset token, empty or
\* null search query, zone id or report notes) raises its error before any
\* HTTP request is issued: the failing call sends no request.  The error is
\* the one of the validation, unless the options argument is null: then the
\* parameter list of the method has thrown a TypeError before the checks.
C18_ValidationBeforeRequest ==
    (caller = "api" /\ pc # "call" /\ ValidationFails) =>
        /\ pc = "thrown"
        /\ IF OptionsArgument(methodName, input) = "null"
           THEN output.threw = "typeError"
           ELSE output.threw \in {"token", "query", "zone", "notes"}
        /\ output.sent = 0 /\ httpCount = 0

\* reportPlant(id, '') with a token threw 'Notes cannot be empty'.
C18_Witness ==
    /\ caller = "api" /\ pc = "thrown"
    /\ methodName = "reportPlant" /\ input.token /\ input.second = "empty"
    /\ output.threw = "notes" /\ httpCount = 0

(* --------------------------- flattenPlantData ------------------------- *)
FlattenReturned == caller = "flatten" /\ pc = "returned"

\* The detail record has no main_species (no key, undefined or null).
LacksMainSpecies(detailedData) ==
    detailedData.t = "map" /\ Get(detailedData, "main_species").t \in {"undefined", "null"}

\* A field that carries nothing: undefined, null, or an empty mapping.
AbsentValue(x) ==
    \/ x.t \in {"undefined", "null"}
    \/ x.t = "map" /\ DOMAIN x.v = {}

\* The fields of the flat record that only the detail record feeds.
DetailOnlyKeys == FlatKeys \ (rootProps \cup {"synonyms"})

\* C19: for every summary record and every detail record lacking
\* main_species, flattenPlantData returns without error a record in which
\* every detail-derived field is absent and every summary-derived field (id,
\* ..., rank, ..., observations, vegetable) equals the field of the summary.
C19_MissingMainSpeciesKeepsSummary ==
    (caller = "flatten" /\ pc \in {"returned", "thrown"} /\ input.paginatedData.t = "map"
       /\ LacksMainSpecies(input.detailedData)) =>
        /\ pc = "returned"
        /\ \A k \in DetailOnlyKeys : AbsentValue(output[k])
        /\ \A k \in rootProps : output[k] = Get(input.paginatedData, k)

\* The list under main_species.distributions.<ty> of the input, as a
\* sequence (empty when there is none).
InputDistList(ty) ==
    DistList(MainSpecies(input.detailedData), ty).v

\* The place in the input list of an entry of the output list (the model's
\* zone names carry it).
PlaceOf(entry) == Get(entry, "name").v[2]

\* C20: for every list under main_species.distributions.native (resp.
\* introduced), the flattened list has length min(5, n), is sorted
\* non-increasing by species_count with an absent count taken as 0, keeps
\* entries of equal count in their original relative order, and consists of
\* the projections {name, species_count} of the entries a stable descending
\* sort places first; the key is omitted when the input list is empty.
C20_DistributionsTopFiveStable ==
    (FlattenReturned /\ input.detailedData \notin Details) =>
        \A ty \in {"native", "introduced"} :
            LET in == InputDistList(ty)
                n == Len(in)
                dists == output["distributions"].v
            IN IF n = 0 THEN ty \notin DOMAIN dists
               ELSE /\ ty \in DOMAIN dists
                    /\ LET out == dists[ty].v
                           chosen == { PlaceOf(out[j]) : j \in 1 .. Len(out) }
                       IN /\ Len(out) = IF n < 5 THEN n ELSE 5
                          /\ \A j \in 1 .. Len(out) :
                                /\ PlaceOf(out[j]) \in 1 .. n
                                /\ out[j] = Map([name |-> Get(in[PlaceOf(out[j])], "name"),
                                                 species_count |->
                                                     Get(in[PlaceOf(out[j])], "species_count")])
                          /\ Cardinality(chosen) = Len(out)
                          /\ \A j \in 1 .. Len(out) - 1 :
                                \/ Count(out[j]) > Count(out[j + 1])
                                \/ /\ Count(out[j]) = Count(out[j + 1])
                                   /\ PlaceOf(out[j]) < PlaceOf(out[j + 1])
                          /\ \A q \in (1 .. n) \ chosen : \A j \in 1 .. Len(out) :
                                \/ Count(in[q]) < Count(out[j])
                                \/ /\ Count(in[q]) = Count(out[j])
                                   /\ q > PlaceOf(out[j])

\* Six entries with counts 0, 1, absent, 1, 0, 1: the three entries of count
\* 1 come first in their order, then the first two of the others (among them
\* the entry without count); the last entry of count 0 is cut.
C20_Witness ==
    /\ FlattenReturned /\ input.detailedData \notin Details
    /\ LET in == InputDistList("native") IN
       /\ Len(in) = 6
       /\ "introduced" \notin DOMAIN output["distributions"].v
       /\ [k \in 1 .. 6 |-> Get(in[k], "species_count")]
             = <<Num(0), Num(1), Undefined, Num(1), Num(0), Num(1)>>
       /\ [k \in 1 .. 5 |-> PlaceOf(output["distributions"].v["native"].v[k])]
             = <<2, 4, 6, 1, 3>>

(* ------------------------------ CLI runs ------------------------------ *)
SigintTaken == logged = "sigint"

\* C11: in a CLI run at most one operation (request, pause, file write) is
\* in flight at every moment, and the fetch categories run strictly one
\* after the other in main's order: the category changes only when the
\* function of the previous one has returned with nothing in flight.
C11_OneOperationInFlight ==
    /\ [](Len(inFlight) <= 1)
    /\ [][category' # category =>
            /\ inFlight = << >>
            /\ \/ pc = "main" /\ category' = Categories[1]
               \/ pc = "returned" /\ category' = NextCategory(category)]_vars

C11_Witness ==
    /\ category = "search"
    /\ pc = "item_wait"
    /\ inFlight = <<"request">>
    /\ Files # << >>
    /\ httpCount > 1

\* C12 as stated: when the process has stopped on an interrupt signal, the
\* operation that was in flight had completed.
C12_StopsAfterSuspensionPoint == SigintTaken => inFlight = << >>

\* C12 amended: the signal handler ends the process at once with exit code
\* 1 while the awaited operation is still in flight, and nothing happens
\* after it: no file write and no request start after the interrupt.
C12_StopsAtOnceBatchAbandoned ==
    /\ [][(SigintTaken' /\ ~SigintTaken) =>
            /\ pc' = "exited"
            /\ exitCode' = 1
            /\ inFlight' # << >>
            /\ writes' = writes
            /\ httpCount' = httpCount]_vars
    /\ [][SigintTaken => UNCHANGED <<pc, writes, httpCount, batchData>>]_vars

C12_Witness ==
    /\ SigintTaken
    /\ pc = "exited"
    /\ category = "plants"
    /\ Len(batchData) > 0
    /\ inFlight = <<"pause">>

\* C13 as stated: the exit code of an interrupt differs from the exit code
\* of a top-level uncaught error, and an error that reaches main's catch is
\* always logged as fatal and ends the process with a non-zero exit code.
C13_DistinctExitCodes ==
    /\ [](SigintTaken => exitCode # FatalExitCode)
    /\ [][pc = "thrown" => (logged' = "fatal" /\ exitCode' # 0)]_vars

\* C13 amended: an interrupt and a top-level uncaught error both end the
\* process with exit code 1 (only a run that completes or prints the help
\* ends with 0); the uncaught error is logged as fatal unless its message
\* holds 'interrupted', which logs the interrupt warning instead.
C13_SameExitCode ==
    /\ [](pc = "exited" =>
            /\ logged \in {"sigint", "fatal", "interrupted"} => exitCode = 1
            /\ logged \in {"complete", "help"} => exitCode = 0
            /\ logged # "none")
    /\ [][pc = "thrown" =>
            /\ pc' = "exited"
            /\ exitCode' = 1
            /\ logged' \in {"fatal", "interrupted"}
            /\ (~cli.token => logged' = "fatal")]_vars

C13_Witness ==
    /\ pc = "exited"
    /\ logged = "fatal"
    /\ exitCode = 1
    /\ cli.token
    /\ writes # << >>
    /\ ~writes[Len(writes)].ok

\* C14: with --dry-run no fetch category issues an HTTP request or writes a
\* file, whatever the other options are.
C14_DryRunNoEffects == options.dryRun => (httpCount = 0 /\ writes = << >>)

C14_Witness ==
    /\ options.dryRun
    /\ options.plants
    /\ options.enrichment
    /\ \A k \in 1 .. Len(Categories) :
          Categories[k] # "plants" => Items(Categories[k]) > 0
    /\ pc = "exited"
    /\ logged = "complete"

(* --------------------------- flattenPlantData ------------------------- *)
\* main_species.images of the call, as passed
InputImages == Get(MainSpecies(input.detailedData), "images")

\* Its image-type keys: the keys of a mapping, the index keys of an array.
ImageTypes ==
    IF InputImages.t = "map" THEN DOMAIN InputImages.v
    ELSE {IndexKey(k) : k \in 1 .. Len(InputImages.v)}

ImageListUnder(ty) ==
    IF InputImages.t = "map" THEN InputImages.v[ty]
    ELSE InputImages.v[CHOOSE k \in 1 .. Len(InputImages.v) : IndexKey(k) = ty]

\* The places among the first two of an image list whose entry is a mapping
\* that has an image_url or a copyright.
Survivors(imageList) ==
    { k \in 1 .. Len(imageList.v) :
        /\ k <= 2
        /\ imageList.v[k].t = "map"
        /\ \/ Truthy(Get(imageList.v[k], "image_url"))
           \/ Truthy(Get(imageList.v[k], "copyright")) }

\* The k-th smallest member of a set of numbers.
Nth(S, k) == CHOOSE x \in S : Cardinality({y \in S : y <= x}) = k

\* C21: the output images hold a key exactly when it is not the empty
\* string, its value is a list and one of the first two entries of the list
\* survives; the list under it has 1 or 2 entries, the {image_url, copyright}
\* projections of the surviving entries in their order.
C21_ImagesFirstTwoProjected ==
    (FlattenReturned /\ InputImages.t \in {"map", "list"}) =>
        LET out == output["images"] IN
        /\ out.t = "map"
        /\ \A ty \in DOMAIN out.v : ty \in ImageTypes
        /\ \A ty \in ImageTypes :
              LET imageList == ImageListUnder(ty)
                  kept == IF imageList.t = "list" THEN Survivors(imageList) ELSE {}
              IN /\ ty \in DOMAIN out.v <=> (ty # "" /\ kept # {})
                 /\ ty \in DOMAIN out.v =>
                       /\ out.v[ty].t = "list"
                       /\ Len(out.v[ty].v) = Cardinality(kept)
                       /\ Len(out.v[ty].v) \in 1 .. 2
                       /\ \A k \in 1 .. Len(out.v[ty].v) :
                             LET entry == out.v[ty].v[k]
                                 from == imageList.v[Nth(kept, k)]
                             IN /\ entry.t = "map"
                                /\ DOMAIN entry.v = {"image_url", "copyright"}
                                /\ entry.v["image_url"] = Get(from, "image_url")
                                /\ entry.v["copyright"] = Get(from, "copyright")

C21_Witness ==
    /\ FlattenReturned
    /\ InputImages.t = "map"
    /\ "flower" \in DOMAIN InputImages.v
    /\ InputImages.v["flower"].t = "list"
    /\ Len(InputImages.v["flower"].v) = 3
    /\ Survivors(InputImages.v["flower"]) = {2}
    /\ Get(InputImages.v["flower"].v[3], "image_url").t = "val"
    /\ Len(output["images"].v["flower"].v) = 1

\* summary.synonyms of the call, as passed
InputSynonyms == Get(input.paginatedData, "synonyms")

\* The first n entries of a list, all of them when it has fewer.
FirstEntries(q, n) == [k \in 1 .. (IF Len(q) < n THEN Len(q) ELSE n) |-> q[k]]

\* C22 as stated: the flattened synonyms are the first 5 entries of a list
\* longer than 5, the list as it is when it has at most 5 entries, and the
\* empty list when summary.synonyms is absent or is not a list.
C22_SynonymsFirstFiveOrEmpty ==
    (FlattenReturned /\ input.paginatedData.t = "map") =>
        IF InputSynonyms.t = "list"
        THEN output["synonyms"] = List(FirstEntries(InputSynonyms.v, 5))
        ELSE output["synonyms"] = EmptyList

\* C22 amended: a list is cut to its first 5 entries; a value that is no
\* list is passed on as it is when it is truthy and replaced by the empty
\* list when it is absent or falsy.
C22_SynonymsFirstFiveOrAsIs ==
    (FlattenReturned /\ input.paginatedData.t = "map") =>
        IF InputSynonyms.t = "list"
        THEN output["synonyms"] = List(FirstEntries(InputSynonyms.v, 5))
        ELSE IF Truthy(InputSynonyms)
        THEN output["synonyms"] = InputSynonyms
        ELSE output["synonyms"] = EmptyList

C22_Witness ==
    /\ FlattenReturned
    /\ InputSynonyms.t = "list"
    /\ Len(InputSynonyms.v) = 6
    /\ Len(output["synonyms"].v) = 5
    /\ output["synonyms"].v[5] = InputSynonyms.v[5]

(* ------------------------ findFirstSourceWithUrl ---------------------- *)
SourceReturned == caller = "findFirstSourceWithUrl" /\ pc = "returned"

\* The entry is a mapping that has a truthy url.
HasUrl(entry) == entry.t = "map" /\ Truthy(Get(entry, "url"))

\* What the call is expected to return for sources: the entry with a
\* truthy url that no other such entry precedes, null when there is none.
IsFirstWithUrl(sources, found) ==
    IF sources.t = "list" /\ \E k \in 1 .. Len(sources.v) : HasUrl(sources.v[k])
    THEN \E k \in 1 .. Len(sources.v) :
            /\ found = sources.v[k]
            /\ HasUrl(sources.v[k])
            /\ \A j \in 1 .. (k - 1) : ~HasUrl(sources.v[j])
    ELSE found = Null

\* C23: findFirstSourceWithUrl returns the first entry that is a mapping
\* with a truthy url, skipping null and non-mapping entries, and null for
\* null, non-list or empty input and when no entry has a truthy url; the
\* flattened source is a single entry or null, never a list.
C23_FirstSourceWithUrl ==
    /\ SourceReturned => IsFirstWithUrl(input.sources, output)
    /\ FlattenReturned =>
          /\ output["source"].t \in {"map", "null"}
          /\ LET sources == Get(MainSpecies(input.detailedData), "sources") IN
             IsFirstWithUrl(sources, output["source"])

C23_Witness ==
    /\ SourceReturned
    /\ input.sources.t = "list"
    /\ Len(input.sources.v) = 3
    /\ input.sources.v[1].t = "null"
    /\ input.sources.v[2].t = "val"
    /\ HasUrl(input.sources.v[3])
    /\ output = input.sources.v[3]

(* -------------------------- trimPlantSynonyms ------------------------- *)
TrimReturned == caller = "trimPlantSynonyms" /\ pc = "returned"

\* The argument is a list of records (mappings).
ListOfRecords(plantList) ==
    plantList.t = "list" /\ \A k \in 1 .. Len(plantList.v) : plantList.v[k].t = "map"

\* The smaller of two numbers.
Min(a, b) == IF a < b THEN a ELSE b

\* C24: for a list of records and a max >= 0, trimPlantSynonyms returns a
\* list of the same length and order in which a record's synonyms list of
\* length L has become its first min(L, max) entries, every other field is
\* as it was and a synonyms field that is no list (or is absent) is left as
\* it was; the list handed in, its records and their synonyms are unchanged.
C24_TrimSynonymsPrefixNoMutation ==
    (TrimReturned /\ ListOfRecords(input.plants)) =>
        LET max == IF input.maxSynonyms.t = "undefined" THEN 5 ELSE input.maxSynonyms.v IN
        /\ argsAfter = input
        /\ output.t = "list"
        /\ Len(output.v) = Len(input.plants.v)
        /\ \A k \in 1 .. Len(output.v) :
              LET plant == input.plants.v[k]
                  trimmed == output.v[k]
              IN /\ trimmed.t = "map"
                 /\ DOMAIN trimmed.v = DOMAIN plant.v
                 /\ \A key \in DOMAIN plant.v :
                       IF key = "synonyms" /\ plant.v[key].t = "list"
                       THEN /\ trimmed.v[key].t = "list"
                            /\ Len(trimmed.v[key].v) = Min(Len(plant.v[key].v), max)
                            /\ \A j \in 1 .. Len(trimmed.v[key].v) :
                                  trimmed.v[key].v[j] = plant.v[key].v[j]
                       ELSE trimmed.v[key] = plant.v[key]

C24_Witness ==
    /\ TrimReturned
    /\ ListOfRecords(input.plants)
    /\ Len(input.plants.v) = 2
    /\ input.maxSynonyms = Num(2)
    /\ Get(input.plants.v[1], "synonyms").t = "list"
    /\ Len(Get(input.plants.v[1], "synonyms").v) = 4
    /\ Len(Get(output.v[1], "synonyms").v) = 2
    /\ "synonyms" \notin DOMAIN input.plants.v[2].v
    /\ "synonyms" \notin DOMAIN output.v[2].v
    /\ argsAfter = input

(* --------------------------- flattenPlantData ------------------------- *)
FlattenCalled == caller = "flatten" /\ pc \in {"returned", "thrown"}

\* C25: a call of flattenPlantData in which main_species, any of its
\* structures, a list of distributions or a unit sub-mapping is absent or
\* null raises no error and returns a record with every flattened field.
C25_NoFailureOnMissingStructures ==
    (FlattenCalled /\ input \in MissingInputs) =>
        /\ pc = "returned"
        /\ DOMAIN output = FlatKeys
        /\ output["images"].t = "map"
        /\ output["distributions"].t = "map"
        /\ output["source"].t \in {"map", "null"}

C25_Witness ==
    /\ FlattenReturned
    /\ input \in MissingInputs
    /\ LET mainSpecies == Get(input.detailedData, "main_species") IN
       /\ mainSpecies.t = "map"
       /\ \A g \in {"images", "distributions", "growth", "sources", "genus"} :
             Get(mainSpecies, g).t = "null"
       /\ Get(mainSpecies, "specifications").t = "map"
    /\ output["spec_average_height_cm"] = Num(30)
    /\ output["growth_light"].t = "undefined"

(* ------------------------------- callAPI ------------------------------ *)
CallApiEnded == caller = "callAPI" /\ pc \in {"returned", "thrown"}

\* What failed in a call that has ended: the API method's error, else the
\* error of the write.
FailedWith ==
    IF ~requests[1].ok THEN requests[1].error
    ELSE IF input.filepath = "" THEN FilepathRequired ELSE WriteFailed

CallApiFailed ==
    \/ ~requests[1].ok
    \/ /\ requests[1].data \notin {"null", "undefined"}
       /\ \/ input.filepath = ""
          \/ writes # << >> /\ ~writes[1].ok

\* The parts of C27 that do not depend on what the failure is: without
\* continueOnError a failure is raised again as it is, null or undefined
\* data give success without a file, and a file is written only after the
\* method has resolved with data.
CallApiOtherwise ==
    /\ CallApiEnded =>
          /\ (requests[1].ok /\ requests[1].data \in {"null", "undefined"}) =>
                 (pc = "returned" /\ output.success /\ writes = << >>)
          /\ ~CallApiFailed => (pc = "returned" /\ output.success)
          /\ (CallApiFailed /\ ~input.continueOnError /\ ~FailedWith.nullish) =>
                 (pc = "thrown" /\ output.threw = FailedWith)
    /\ (caller = "callAPI" /\ writes # << >>) =>
          /\ Len(writes) = 1
          /\ requests # << >>
          /\ requests[1].ok
          /\ requests[1].data \notin {"null", "undefined"}

\* A failure came back as a result: success false, the message, HTTPError
\* and the status code when the error carries a response.
ReportedAsResult ==
    /\ pc = "returned"
    /\ ~output.success
    /\ output.error = FailedWith.message
    /\ FailedWith.response =>
          (output.errorType = "HTTPError" /\ output.statusCode = FailedWith.status)

\* C27: callAPI with continueOnError never raises: every failure of the API
\* method or of the file write comes back as {success: false, error}, with
\* errorType HTTPError and the status code when the error carries a
\* response; without continueOnError the failure is raised again; null or
\* undefined data give success without a file; a file is written only
\* after the method resolved with data.
C27_CallApiNeverRaises ==
    /\ CallApiOtherwise
    /\ (CallApiEnded /\ CallApiFailed /\ input.continueOnError) => ReportedAsResult

\* C27 for the failures that are error objects: what is left of it when a
\* rejection with null or undefined is set aside.
CallApiReportsErrorObjects ==
    /\ CallApiOtherwise
    /\ (CallApiEnded /\ CallApiFailed /\ input.continueOnError /\ ~FailedWith.nullish)
          => ReportedAsResult

(* --------------------------- batch page ranges ------------------------ *)
\* The walk is just past a flush after which it goes on: a batch boundary
\* has been written and no page has been appended since.
JustFlushed ==
    /\ InPlantWalk
    /\ pc \in {"pause", "loop", "page_wait"}
    /\ pagesFetched > 0
    /\ pagesFetched % batchSize = 0

\* The accumulator after a flush: empty, and starting one past the last
\* page of the file just written.
AccumulatorReset ==
    JustFlushed =>
        /\ batchData = << >>
        /\ Files # << >>
        /\ batchStartPage = Files[Len(Files)].end + 1

\* The page ranges of the files: none is empty, the first starts at the
\* configured start page, each further one right after the one before.
RangesContiguous ==
    /\ \A k \in 1 .. Len(Files) : Files[k].start <= Files[k].end
    /\ Files # << >> => Files[1].start = options.startPage
    /\ \A k \in 2 .. Len(Files) : Files[k].start = Files[k - 1].end + 1

\* C28: after every flush the accumulator is empty and its start page is one
\* past the last page flushed; the page ranges [start, end] of the files of
\* one plant walk have start <= end, the first starts at the configured
\* start page and each further one at the end of the one before plus 1.
C28_RangesDisjointContiguous ==
    InPlantWalk => (AccumulatorReset /\ RangesContiguous)

\* C28 over the walks in which every writeToFile resolved.
C28_WhenWritesResolve ==
    (\A k \in 1 .. Len(writes) : writes[k].ok) => C28_RangesDisjointContiguous

\* Two files of one walk, the accumulator reset in between.
C28_TwoRanges ==
    /\ InPlantWalk /\ pc = "returned"
    /\ \A k \in 1 .. Len(writes) : writes[k].ok
    /\ Len(Files) = 2
    /\ options.startPage > 1

(* ---------------------------- page numbering -------------------------- *)
\* The page was processed and the walk went on from it: the request
\* resolved with records and a next link.
Processed(r) == r.ok /\ r.present /\ Len(r.data) > 0 /\ r.next

\* The start page the walk is asked to begin at: the number written after
\* --start-page in a run of main(), options.startPage in a call of
\* fetchPlants.
ConfiguredStartPage ==
    IF cli.startPage # 0 THEN cli.startPage ELSE options.startPage

\* C29: with start page S and a page ceiling N >= 1 the plant walk requests
\* the pages S, S+1, S+2, ... in this order, each once, going on by one only
\* after a page that was processed, and it requests at most N pages, none
\* above S+N-1; a dry run counts the pages it simulates the same way.
C29_PagesInOrderUpToCeiling ==
    (caller = "fetchPlants" /\ options.plants /\ options.pages >= 1) =>
        /\ \A k \in 1 .. Len(requests) :
              SameNumber(requests[k].page, ConfiguredStartPage + k - 1)
        /\ \A k \in 1 .. Len(requests) - 1 : Processed(requests[k])
        /\ Len(requests) <= options.pages
        /\ \A k \in 1 .. Len(requests) :
              AtMost(requests[k].page, ConfiguredStartPage + options.pages - 1)
        /\ pagesFetched <= options.pages
        /\ (options.dryRun /\ pagesFetched > 0) =>
              SameNumber(page, ConfiguredStartPage + pagesFetched)
        /\ pc = "page_wait" =>
              /\ Len(requests) < options.pages
              /\ SameNumber(page, ConfiguredStartPage + Len(requests))
              /\ httpCount > 0

(* ------------------------- dry run and real run ----------------------- *)
InDryWalk == caller = "fetchPlants" /\ options.plants /\ options.dryRun

PageRange(w) == [start |-> w.start, end |-> w.end]
PageRanges(ws) == [k \in 1 .. Len(ws) |-> PageRange(ws[k])]

FullBatch(w) == w.ok /\ w.site = "batch"

\* A real run over a server whose pages all have records and a next link,
\* up to the page ceiling.
RealRunToCeiling ==
    /\ InPlantWalk /\ pc = "returned" /\ ended = "ceiling"
    /\ options.pages <= DryRunPageCap
    /\ \A k \in 1 .. Len(requests) : Processed(requests[k])

\* A dry run announces what DryRunAnnounces says, and simulates at most 15
\* pages.
DryRunBounded ==
    InDryWalk =>
        /\ pagesFetched <= DryRunPageCap
        /\ pc = "returned" => announced = DryRunAnnounces

\* C30 as claimed: the batch page ranges a dry run announces are the page
\* ranges of the files a real run with the same start page, page ceiling and
\* enrichment setting writes over pages that all have records and a next
\* link, the final partial batch at the page ceiling included; the dry run
\* always ends, after at most 15 simulated pages.
C30_DryRunAnnouncesAllFiles ==
    /\ [](DryRunBounded)
    /\ [](RealRunToCeiling => PageRanges(Files) = DryRunAnnounces)
    /\ (InDryWalk ~> (pc = "returned"))

\* C30 amended: the dry run announces the page ranges of the full batches
\* the real run writes, and not the final partial batch the real run writes
\* at the page ceiling; the dry run always ends, after at most 15 simulated
\* pages.
C30_DryRunAnnouncesFullBatches ==
    /\ [](DryRunBounded)
    /\ [](RealRunToCeiling =>
            /\ PageRanges(SelectSeq(Files, FullBatch)) = DryRunAnnounces
            /\ \A k \in 1 .. Len(Files) :
                  Files[k].site = "final" =>
                      \A j \in 1 .. Len(DryRunAnnounces) :
                          DryRunAnnounces[j] # PageRange(Files[k]))
    /\ (InDryWalk ~> (pc = "returned"))

\* A real run from a later start page that wrote one full batch and a final
\* partial one, of which a dry run announces the first.
C30_Witness ==
    /\ RealRunToCeiling
    /\ options.startPage > 1
    /\ Len(Files) = 2 /\ Files[1].site = "batch" /\ Files[2].site = "final"
    /\ Len(DryRunAnnounces) = 1

\* A dry run stopped by the cap of 15 pages, three batches announced.
DryRunCapped ==
    /\ InDryWalk /\ pc = "returned" /\ ended = "dry15"
    /\ options.enrichment /\ Len(announced) = 3

====
